---- MODULE Spec2Model ----
(***************************************************************************)
(* A model of the anime scrapers (MyAnimeList, AniDB, AnimePlanet): the    *)
(* HTML cache and fetch of base_scraper.py / anidb_scraper.py, the         *)
(* category tables and query URLs, the per-site list extraction and the    *)
(* deduplicate / sort / re-rank step of scrape_category; further the run   *)
(* of run_all_scrapers.py with its export files, the title, score and      *)
(* common-title analyses of data_analyzer.py, and one page request as a    *)
(* process with its sleeps and GET attempts.                               *)
(*                                                                         *)
(* Text is modelled by what the code does with it.  Titles and scores are  *)
(* sequences of one-character strings.  URLs and cache file names are      *)
(* sequences of tokens, a token being a run of alphanumeric characters or  *)
(* one non-alphanumeric character; the text is the concatenation of its    *)
(* tokens.                                                                 *)
(***************************************************************************)
EXTENDS Integers, Sequences, FiniteSets, TLC

(***************************************************************************)
(* Bounds of the model.                                                    *)
(***************************************************************************)
\* handler calls in one behaviour
MaxOps == 2
\* a scrape_all_categories call counts as BatchOps handler calls
BatchOps == 2
\* largest limit argument passed to scrape_category / scrape_all_categories
MaxLimit == 2
\* URLs of one handler call that answer otherwise than nominally
MaxDeviations == 1
\* pooled records handed to the merge step in MergeSpec
MaxPool == 3
\* fractional digits kept when a score is parsed (scores are compared as
\* integers scaled by 10^ScoreFracDigits)
ScoreFracDigits == 2
\* longest title handed to normalize_title in TitleSpec
MaxTitleLen == 5
\* successive applications of normalize_title to one title in TitleSpec
MaxApplications == 2
\* records placed in the combined results handed to the analyzer
MaxRecords == 3
\* export files whose write fails during one run of run_all_scrapers
MaxWriteFailures == 1

(***************************************************************************)
(* Characters and strings.                                                 *)
(***************************************************************************)
DigitChars == <<"0", "1", "2", "3", "4", "5", "6", "7", "8", "9">>

UpperChars == <<"A", "B", "C", "D", "E", "F", "G", "H", "I", "J", "K", "L", "M",
                "N", "O", "P", "Q", "R", "S", "T", "U", "V", "W", "X", "Y", "Z">>

LowerChars == <<"a", "b", "c", "d", "e", "f", "g", "h", "i", "j", "k", "l", "m",
                "n", "o", "p", "q", "r", "s", "t", "u", "v", "w", "x", "y", "z">>

Range(s) == {s[i] : i \in 1..Len(s)}

IsDigit(c) == c \in Range(DigitChars)

DigitVal(c) == (CHOOSE i \in 1..Len(DigitChars) : DigitChars[i] = c) - 1

\* \s of the re module
IsSpace(c) == c \in {" ", "\t", "\n", "\r"}

\* \w of the re module
IsWordChar(c) == IsDigit(c) \/ c \in Range(UpperChars) \/ c \in Range(LowerChars) \/ c = "_"

\* str.lower() on one character
LowerChar(c) ==
    IF c \in Range(UpperChars)
    THEN LowerChars[CHOOSE i \in 1..Len(UpperChars) : UpperChars[i] = c]
    ELSE c

\* str.lower()
Lower(s) == [i \in 1..Len(s) |-> LowerChar(s[i])]

Take(s, n) == SubSeq(s, 1, IF n < Len(s) THEN n ELSE Len(s))

Drop(s, n) == SubSeq(s, n + 1, Len(s))

RECURSIVE LStrip(_)
LStrip(s) == IF s # <<>> /\ IsSpace(Head(s)) THEN LStrip(Tail(s)) ELSE s

RECURSIVE RStrip(_)
RStrip(s) == IF s # <<>> /\ IsSpace(s[Len(s)]) THEN RStrip(SubSeq(s, 1, Len(s) - 1)) ELSE s

\* str.strip(), BeautifulSoup get_text(strip=True) on a single text node
Strip(s) == RStrip(LStrip(s))

\* the "N/A" sentinel
NA == <<"N", "/", "A">>

RECURSIVE Pow10(_)
Pow10(n) == IF n = 0 THEN 1 ELSE 10 * Pow10(n - 1)

\* value of a run of decimal digits
RECURSIVE DigitsValue(_)
DigitsValue(s) ==
    IF s = <<>> THEN 0 ELSE 10 * DigitsValue(SubSeq(s, 1, Len(s) - 1)) + DigitVal(s[Len(s)])

\* length of the run of digits at the start of s
RECURSIVE DigitRun(_)
DigitRun(s) == IF s # <<>> /\ IsDigit(Head(s)) THEN 1 + DigitRun(Tail(s)) ELSE 0

\* str(n) for n >= 0
RECURSIVE DecStr(_)
DecStr(n) == IF n < 10 THEN <<DigitChars[n + 1]>> ELSE DecStr(n \div 10) \o <<DigitChars[(n % 10) + 1]>>

(***************************************************************************)
(* Score parsing and title normalisation.                                  *)
(***************************************************************************)
\* position of the first digit of s, 0 when there is none
RECURSIVE FirstDigit(_, _)
FirstDigit(s, i) ==
    IF i > Len(s) THEN 0 ELSE IF IsDigit(s[i]) THEN i ELSE FirstDigit(s, i + 1)

\* a run of fractional digits as an integer number of 10^-ScoreFracDigits
ScaleFrac(fr) ==
    IF Len(fr) <= ScoreFracDigits
    THEN DigitsValue(fr) * Pow10(ScoreFracDigits - Len(fr))
    ELSE DigitsValue(Take(fr, ScoreFracDigits))

\* the digits behind the dot of a match of \d+\.?\d* whose integer part has
\* been consumed
FractionOf(after) ==
    IF after # <<>> /\ Head(after) = "."
    THEN ScaleFrac(Take(Tail(after), DigitRun(Tail(after))))
    ELSE 0

\* float(match.group(1)) for a text that starts with the match
FloatOfMatch(rest) ==
    DigitsValue(Take(rest, DigitRun(rest))) * Pow10(ScoreFracDigits)
        + FractionOf(Drop(rest, DigitRun(rest)))

\* _parse_score: float of the first match of (\d+\.?\d*), 0.0 for "N/A", for an
\* empty string and when nothing matches; the float is kept as an integer
\* number of 10^-ScoreFracDigits
ParseScore(score_str) ==
    IF score_str = NA \/ score_str = <<>> \/ FirstDigit(score_str, 1) = 0 THEN 0
    ELSE FloatOfMatch(Drop(score_str, FirstDigit(score_str, 1) - 1))

\* s is digits, a dot, digits and nothing else, the integer part having n digits
IsDecimalAt(s, n) ==
    /\ n > 0
    /\ Len(s) > n + 1
    /\ s[n + 1] = "."
    /\ DigitRun(Drop(s, n + 1)) = Len(s) - n - 1

\* re.match(r'^\d+\.\d+$', s)
IsDecimal(s) == IsDecimalAt(s, DigitRun(s))

\* re.sub(r'\s+', ' ', s)
RECURSIVE CollapseSpace(_)
CollapseSpace(s) ==
    IF s = <<>> THEN <<>>
    ELSE IF IsSpace(Head(s)) THEN <<" ">> \o CollapseSpace(LStrip(s))
    ELSE <<Head(s)>> \o CollapseSpace(Tail(s))

\* re.sub(r'[^\w\s]', '', s)
RemoveSpecial(s) == SelectSeq(s, LAMBDA c : IsWordChar(c) \/ IsSpace(c))

\* AnimeDataAnalyzer.normalize_title
NormalizeTitle(title) ==
    IF title = <<>> \/ title = NA THEN <<>>
    ELSE Strip(RemoveSpecial(CollapseSpace(Lower(Strip(title)))))

(***************************************************************************)
(* The three scrapers, their category tables and query URLs.               *)
(***************************************************************************)
MAL == "mal"
ANIDB == "anidb"
ANIMEPLANET == "animeplanet"

Scrapers == {MAL, ANIDB, ANIMEPLANET}

\* self.categories of MALScraper, in insertion order; a genre id is kept as
\* the decimal text the f-string of _scrape_single_genre puts in the URL
MALCategories == <<
    [key |-> "action_adventure_shounen", name |-> "Action, Adventure, Shounen",
     filters |-> << <<"1">>, <<"2">>, <<"27">> >>],
    [key |-> "romance", name |-> "Romance", filters |-> << <<"22">> >>],
    [key |-> "ecchi_erotica", name |-> "Ecchi, Erotica", filters |-> << <<"9">> >>],
    [key |-> "slice_of_life", name |-> "Slice of Life", filters |-> << <<"36">> >>],
    [key |-> "comedy", name |-> "Comedy", filters |-> << <<"4">> >>] >>

\* self.categories of AniDBScraper
AniDBCategories == <<
    [key |-> "action_adventure_shounen", name |-> "Action, Adventure, Shounen",
     filters |-> << <<"action">>, <<"adventure">>, <<"shounen">> >>],
    [key |-> "romance", name |-> "Romance", filters |-> << <<"romance">> >>],
    [key |-> "ecchi", name |-> "Ecchi", filters |-> << <<"ecchi">> >>],
    [key |-> "comedy", name |-> "Comedy", filters |-> << <<"comedy">> >>] >>

\* self.categories of AnimePlanetScraper
AnimePlanetCategories == <<
    [key |-> "action_adventure_shounen", name |-> "Action, Adventure, Shounen",
     filters |-> << <<"action">>, <<"adventure">>, <<"shounen">> >>],
    [key |-> "romance", name |-> "Romance", filters |-> << <<"romance">> >>],
    [key |-> "ecchi", name |-> "Ecchi", filters |-> << <<"ecchi">> >>],
    [key |-> "slice_of_life", name |-> "Slice of Life",
     filters |-> << <<"slice", "-", "of", "-", "life">> >>],
    [key |-> "comedy", name |-> "Comedy", filters |-> << <<"comedy">> >>] >>

Categories(s) ==
    CASE s = MAL -> MALCategories
      [] s = ANIDB -> AniDBCategories
      [] s = ANIMEPLANET -> AnimePlanetCategories

\* category_key in self.categories
HasCategory(s, key) == \E i \in 1..Len(Categories(s)) : Categories(s)[i].key = key

\* self.categories[category_key]
Category(s, key) ==
    Categories(s)[CHOOSE i \in 1..Len(Categories(s)) : Categories(s)[i].key = key]

\* the source field the extractor of each scraper writes
SourceName(s) ==
    CASE s = MAL -> "MyAnimeList"
      [] s = ANIDB -> "AniDB"
      [] s = ANIMEPLANET -> "AnimePlanet"

\* base_url
BaseUrl(s) ==
    CASE s = MAL -> <<"https", ":", "/", "/", "myanimelist", ".", "net">>
      [] s = ANIDB -> <<"https", ":", "/", "/", "anidb", ".", "net">>
      [] s = ANIMEPLANET -> <<"https", ":", "/", "/", "www", ".", "anime", "-", "planet", ".", "com">>

\* the one-character tokens: every character that is not alphanumeric
Separators == {":", "/", ".", "?", "[", "]", "=", "&", "%", "-", ",", " ", "_", "~"}

\* urllib.parse.quote with its default safe='/': letters, digits and _.-~/
\* pass, a comma becomes %2C and a space %20
QuoteToken(t) ==
    CASE t = "," -> <<"%", "2C">>
      [] t = " " -> <<"%", "20">>
      [] OTHER -> <<t>>

RECURSIVE Quote(_)
Quote(s) == IF s = <<>> THEN <<>> ELSE QuoteToken(Head(s)) \o Quote(Tail(s))

\* ",".join(tags)
RECURSIVE JoinComma(_)
JoinComma(tags) ==
    IF tags = <<>> THEN <<>>
    ELSE IF Len(tags) = 1 THEN Head(tags)
    ELSE Head(tags) \o <<",">> \o JoinComma(Tail(tags))

\* the URL of _scrape_single_genre
MALGenreUrl(genre_id) ==
    BaseUrl(MAL) \o <<"/", "anime", ".", "php", "?", "genre", "[", "]", "=">> \o genre_id
                 \o <<"&", "o", "=", "3">>

\* the URL AniDBScraper.scrape_category builds: all tags of the category in
\* one tag.include parameter
AniDBCategoryUrl(tags) ==
    BaseUrl(ANIDB) \o <<"/", "anime", "/", "?", "tag", ".", "include", "=">>
                   \o Quote(JoinComma(tags))
                   \o <<"&", "orderby", ".", "name", "=", "rating", ".", "rating",
                        "&", "orderby", ".", "order", "=", "desc">>

\* tag.replace(' ', '-')
SpaceToHyphen(tag) == [i \in 1..Len(tag) |-> IF tag[i] = " " THEN "-" ELSE tag[i]]

\* _build_tag_url
BuildTagUrl(tag) ==
    BaseUrl(ANIMEPLANET) \o <<"/", "anime", "/", "tags", "/">> \o Quote(SpaceToHyphen(tag))
                         \o <<"?", "sort", "=", "average", "&", "order", "=", "desc">>

\* a variant of FilterUrls: every scraper asks for one URL per filter value
OneUrlPerFilter(s, f) ==
    CASE s = MAL -> [i \in 1..Len(f) |-> MALGenreUrl(f[i])]
      [] s = ANIDB -> [i \in 1..Len(f) |-> AniDBCategoryUrl(<<f[i]>>)]
      [] s = ANIMEPLANET -> [i \in 1..Len(f) |-> BuildTagUrl(f[i])]

\* the query URLs one scrape_category call asks _get_page_content for, in order
FilterUrls(s, f) ==
    CASE s = MAL -> [i \in 1..Len(f) |-> MALGenreUrl(f[i])]
      [] s = ANIDB -> <<AniDBCategoryUrl(f)>>
      [] s = ANIMEPLANET -> [i \in 1..Len(f) |-> BuildTagUrl(f[i])]

\* the query URLs of the categories from the i-th on, by category key
RECURSIVE UrlsByKey(_, _)
UrlsByKey(s, i) ==
    IF i > Len(Categories(s)) THEN <<>>
    ELSE (Categories(s)[i].key :> FilterUrls(s, Categories(s)[i].filters)) @@ UrlsByKey(s, i + 1)

\* the query URLs of every category of every scraper, computed once
UrlTable ==
    [mal |-> UrlsByKey(MAL, 1), anidb |-> UrlsByKey(ANIDB, 1),
     animeplanet |-> UrlsByKey(ANIMEPLANET, 1)]

CategoryUrls(s, key) == UrlTable[s][key]

(***************************************************************************)
(* Cache file names.                                                       *)
(***************************************************************************)
\* url.replace(base, ''): every occurrence of base removed
RECURSIVE RemoveAll(_, _)
RemoveAll(s, pat) ==
    IF Len(s) < Len(pat) \/ pat = <<>> THEN s
    ELSE IF SubSeq(s, 1, Len(pat)) = pat THEN RemoveAll(Drop(s, Len(pat)), pat)
    ELSE <<Head(s)>> \o RemoveAll(Tail(s), pat)

\* .lstrip('/')
RECURSIVE LStripSlash(_)
LStripSlash(s) == IF s # <<>> /\ Head(s) = "/" THEN LStripSlash(Tail(s)) ELSE s

\* re.sub(r'[^a-zA-Z0-9]', '_', s)
ReplaceNonAlnum(s) == [i \in 1..Len(s) |-> IF s[i] \in Separators THEN "_" ELSE s[i]]

\* re.sub(r'_+', '_', s)
RECURSIVE CollapseUnderscores(_)
CollapseUnderscores(s) ==
    IF Len(s) < 2 THEN s
    ELSE IF s[1] = "_" /\ s[2] = "_" THEN CollapseUnderscores(Tail(s))
    ELSE <<Head(s)>> \o CollapseUnderscores(Tail(s))

\* .strip('_')
RECURSIVE StripUnderscores(_)
StripUnderscores(s) ==
    IF s # <<>> /\ Head(s) = "_" THEN StripUnderscores(Tail(s))
    ELSE IF s # <<>> /\ s[Len(s)] = "_" THEN StripUnderscores(SubSeq(s, 1, Len(s) - 1))
    ELSE s

\* _get_cache_filename (BaseScraper and AniDBScraper: the same text, the site
\* prefix being site_name.lower() resp. the literal "anidb")
CleanName(url_part) == StripUnderscores(CollapseUnderscores(ReplaceNonAlnum(url_part)))

OrMain(clean_name) == IF clean_name = <<>> THEN <<"main">> ELSE clean_name

\* the place of the first "?" of a URL from i on, one past its end without one
RECURSIVE FirstQuestionMark(_, _)
FirstQuestionMark(url, i) ==
    IF i > Len(url) \/ url[i] = "?" THEN i ELSE FirstQuestionMark(url, i + 1)

Min1(a, b) == IF a < b THEN a ELSE b

\* a variant of GetCacheFilename: the query string is left out of the name
GetCacheFilenameOfPath(s, url) ==
    <<"html_cache", "/", s, "_">>
        \o OrMain(CleanName(LStripSlash(RemoveAll(
               SubSeq(url, 1, Min1(Len(url), FirstQuestionMark(url, 1) - 1)), BaseUrl(s)))))
        \o <<".", "html">>

GetCacheFilename(s, url) ==
    <<"html_cache", "/", s, "_">> \o OrMain(CleanName(LStripSlash(RemoveAll(url, BaseUrl(s)))))
                                  \o <<".", "html">>

(***************************************************************************)
(* Documents and list extraction.                                          *)
(*                                                                         *)
(* A document is the sequence of listing rows its markup holds (MAL: the   *)
(* <tr> elements, AniDB: the rows of table.animelist after the header,     *)
(* AnimePlanet: the li.card elements of ul.cardDeck).  The empty sequence  *)
(* is both the empty body and a body without listing rows: every caller    *)
(* turns either into an empty list.  A row holds                           *)
(*   link   whether the row has the title link the extractor looks for,    *)
(*   title  the text of the title element,                                 *)
(*   score  the text of the score element (empty when there is none),      *)
(*   cells  the number of <td> cells of the row,                           *)
(*   href   the href of the title link,                                    *)
(*   info   the texts of the two descriptive sub-elements.                 *)
(***************************************************************************)
JoinWith(a, sep, b) == <<a, sep, b>>

\* url = base_url + href unless href is empty or absolute
AbsoluteUrl(s, href) ==
    IF href = <<>> \/ Head(href) = "http" \/ Head(href) = "https" THEN href ELSE BaseUrl(s) \o href

\* additional_info of _parse_anime_search_list
MALAdditionalInfo(row) ==
    IF row.cells >= 5 /\ row.info[1] # "" /\ row.info[2] # ""
    THEN <<row.info[1], ", ", row.info[2], " episodes">>
    ELSE IF row.cells >= 5 /\ row.info[1] # "" THEN <<row.info[1]>>
    ELSE <<"N/A">>

\* score of _parse_anime_search_list: the text of the fifth cell when it is a
\* decimal number
MALScore(row) ==
    IF row.cells >= 5 /\ IsDecimal(Strip(row.score)) THEN Strip(row.score) ELSE NA

\* MALScraper._parse_anime_search_list: the loop over the rows, anime_list
\* being the records appended so far (count = len(anime_list))
\* the anime_data of one row of _parse_anime_search_list, count records
\* having been appended before it
MALAnimeData(row, category_name, count) ==
    [title |-> Strip(row.title),
     score |-> MALScore(row),
     rank |-> DecStr(count + 1),
     url |-> AbsoluteUrl(MAL, row.href),
     additional_info |-> MALAdditionalInfo(row),
     source |-> SourceName(MAL),
     category |-> category_name]

\* the rows _parse_anime_search_list passes over: no title link, or a title
\* that is empty or "N/A"
MALSkipsRow(row) == ~row.link \/ Strip(row.title) = <<>> \/ Strip(row.title) = NA

RECURSIVE ParseAnimeSearchList(_, _, _, _)
ParseAnimeSearchList(rows, category_name, limit, anime_list) ==
    IF rows = <<>> \/ Len(anime_list) >= limit THEN anime_list
    ELSE IF MALSkipsRow(Head(rows))
    THEN ParseAnimeSearchList(Tail(rows), category_name, limit, anime_list)
    ELSE ParseAnimeSearchList(Tail(rows), category_name, limit,
             Append(anime_list, MALAnimeData(Head(rows), category_name, Len(anime_list))))

\* the digits behind the dot when s has a dot behind its n leading digits
FractionRun(s, n) ==
    IF n > 0 /\ Len(s) > n /\ s[n + 1] = "." THEN DigitRun(Drop(s, n + 1)) ELSE 0

\* the leading \d+\.\d+ of a text that starts with one
DecimalPrefix(s) ==
    IF FractionRun(s, DigitRun(s)) > 0
    THEN Take(s, DigitRun(s) + 1 + FractionRun(s, DigitRun(s)))
    ELSE <<>>

\* rating of AniDBScraper._parse_anime_list: the first cell whose text starts
\* with a decimal number gives it
AniDBRating(row) ==
    IF DecimalPrefix(Strip(row.score)) # <<>> THEN DecimalPrefix(Strip(row.score)) ELSE NA

\* AniDBScraper._parse_anime_list: enumerate(anime_rows[:limit]), i counting
\* from 1 here
\* the anime_data of the i-th row of _parse_anime_list
AniDBAnimeData(row, category_name, i) ==
    [rank |-> DecStr(i),
     title |-> Strip(row.title),
     score |-> AniDBRating(row),
     url |-> IF row.link THEN AbsoluteUrl(ANIDB, row.href) ELSE NA,
     additional_info |-> JoinWith(row.info[1], " | ", row.info[2]),
     source |-> SourceName(ANIDB),
     category |-> category_name]

RECURSIVE ParseAnimeList(_, _, _, _)
ParseAnimeList(rows, category_name, limit, i) ==
    IF i > Len(rows) \/ i > limit THEN <<>>
    ELSE IF rows[i].cells < 3 THEN ParseAnimeList(rows, category_name, limit, i + 1)
    ELSE <<AniDBAnimeData(rows[i], category_name, i)>>
             \o ParseAnimeList(rows, category_name, limit, i + 1)

\* AnimePlanetScraper._extract_score
ExtractScore(row) == IF row.score = <<>> THEN NA ELSE Strip(row.score)

\* AnimePlanetScraper._extract_anime_data
ExtractAnimeData(row, rank, tag) ==
    [rank |-> DecStr(rank),
     title |-> IF row.link THEN Strip(row.title) ELSE NA,
     score |-> ExtractScore(row),
     url |-> IF row.link THEN BaseUrl(ANIMEPLANET) \o row.href ELSE NA,
     additional_info |-> JoinWith(row.info[1], " | ", row.info[2]),
     source |-> SourceName(ANIMEPLANET),
     tag |-> tag]

\* the card loop of AnimePlanetScraper._scrape_single_tag
ExtractCards(rows, tag, limit) ==
    [i \in 1..Len(Take(rows, limit)) |-> ExtractAnimeData(rows[i], i, tag)]

(***************************************************************************)
(* The merge step of scrape_category (MAL and AnimePlanet, the same text). *)
(***************************************************************************)
\* a variant of IndexOfTitle: titles are compared by their normalize_title key
IndexOfNormalizedTitle(unique_anime, title) ==
    IF \E i \in 1..Len(unique_anime) : NormalizeTitle(unique_anime[i].title) = NormalizeTitle(title)
    THEN CHOOSE i \in 1..Len(unique_anime) :
             NormalizeTitle(unique_anime[i].title) = NormalizeTitle(title)
    ELSE 0

\* position of the record of unique_anime with this title, 0 when absent
IndexOfTitle(unique_anime, title) ==
    IF \E i \in 1..Len(unique_anime) : unique_anime[i].title = title
    THEN CHOOSE i \in 1..Len(unique_anime) : unique_anime[i].title = title
    ELSE 0

\* a variant of KeepBetter: the first record of a title is never replaced
KeepFirst(unique_anime, anime, i) ==
    IF i = 0 THEN Append(unique_anime, anime) ELSE unique_anime

\* the deduplication loop: unique_anime is the dict in insertion order, a
\* replaced value keeps the place of its key
\* one pass of the loop body: anime is new (i = 0), or better than the record
\* at i, or dropped
KeepBetter(unique_anime, anime, i) ==
    IF i = 0 THEN Append(unique_anime, anime)
    ELSE IF ParseScore(anime.score) > ParseScore(unique_anime[i].score)
    THEN [unique_anime EXCEPT ![i] = anime]
    ELSE unique_anime

RECURSIVE RemoveDuplicates(_, _)
RemoveDuplicates(all_anime, unique_anime) ==
    IF all_anime = <<>> THEN unique_anime
    ELSE RemoveDuplicates(Tail(all_anime),
             KeepBetter(unique_anime, Head(all_anime),
                        IndexOfTitle(unique_anime, Head(all_anime).title)))

\* a variant of InsertByScore: the record goes in front of its equals
RECURSIVE InsertBeforeEquals(_, _)
InsertBeforeEquals(sorted, anime) ==
    IF sorted = <<>> THEN <<anime>>
    ELSE IF ParseScore(Head(sorted).score) > ParseScore(anime.score)
    THEN <<Head(sorted)>> \o InsertBeforeEquals(Tail(sorted), anime)
    ELSE <<anime>> \o sorted

\* one record put into a list sorted by descending score, behind its equals
RECURSIVE InsertByScore(_, _)
InsertByScore(sorted, anime) ==
    IF sorted = <<>> THEN <<anime>>
    ELSE IF ParseScore(Head(sorted).score) >= ParseScore(anime.score)
    THEN <<Head(sorted)>> \o InsertByScore(Tail(sorted), anime)
    ELSE <<anime>> \o sorted

\* final_anime.sort(key=_parse_score, reverse=True): list.sort is stable and
\* stays so under reverse=True
RECURSIVE SortByScore(_, _)
SortByScore(final_anime, sorted) ==
    IF final_anime = <<>> THEN sorted
    ELSE SortByScore(Tail(final_anime), InsertByScore(sorted, Head(final_anime)))

\* anime[field] = value
SetField(anime, field, value) ==
    [f \in DOMAIN anime \cup {field} |-> IF f = field THEN value ELSE anime[f]]

\* a variant of Rerank: the score sentinel is written back as the number it
\* sorts as
RerankWritesParsedScore(final_anime, category_name, limit) ==
    [i \in 1..Len(Take(final_anime, limit)) |->
        SetField(SetField(SetField(final_anime[i], "category", category_name),
                          "rank", DecStr(i)),
                 "score", IF final_anime[i].score = NA THEN <<"0", ".", "0">>
                          ELSE final_anime[i].score)]

\* the re-rank loop and the returned final_anime[:limit]
Rerank(final_anime, category_name, limit) ==
    [i \in 1..Len(Take(final_anime, limit)) |->
        SetField(SetField(final_anime[i], "category", category_name), "rank", DecStr(i))]

\* scrape_category from the pooled all_anime on
MergeAnime(all_anime, category_name, limit) ==
    Rerank(SortByScore(RemoveDuplicates(all_anime, <<>>), <<>>), category_name, limit)

(***************************************************************************)
(* The documents the sites serve in this model.                            *)
(***************************************************************************)
RowX80 == [link |-> TRUE, title |-> <<"X">>, score |-> <<"8", ".", "0">>, cells |-> 5,
           href |-> <<"/", "anime", "/", "1">>, info |-> <<"TV", "12">>]

RowX95 == [link |-> TRUE, title |-> <<" ", "X">>, score |-> <<"9", ".", "5">>, cells |-> 5,
           href |-> <<"/", "anime", "/", "2">>, info |-> <<"Movie", "1">>]

RowY90 == [link |-> TRUE, title |-> <<"Y">>, score |-> <<"9", ".", "0">>, cells |-> 5,
           href |-> <<"/", "anime", "/", "3">>, info |-> <<"TV", "">>]

RowNoLink == [link |-> FALSE, title |-> <<>>, score |-> <<>>, cells |-> 2,
              href |-> <<>>, info |-> <<"", "">>]

RowLowerX == [link |-> TRUE, title |-> <<"x", "!">>, score |-> <<"9", ".", "5", " ", "(", "3", ")">>,
              cells |-> 5, href |-> <<"/", "anime", "/", "4">>, info |-> <<"OVA", "2">>]

\* three entries, the first two with one title
DocA == <<RowX80, RowX95, RowY90>>

\* a row without title link, then two entries
DocB == <<RowNoLink, RowLowerX, RowY90>>

\* the empty body
EmptyBody == <<>>

Docs == {DocA, DocB}

(***************************************************************************)
(* The environment of one _get_page_content call.                          *)
(***************************************************************************)
\* a page as _make_request and _get_page_content return it: None is NoDocument
NoDocument == [ok |-> FALSE, body |-> <<>>]

Document(body) == [ok |-> TRUE, body |-> body]

\* a cache file: NoFile when os.path.exists is false
NoFile == [exists |-> FALSE, body |-> <<>>]

File(body) == [exists |-> TRUE, body |-> body]

\* what the file system and the site do during one call:
\*   read   reading an existing cache file succeeds,
\*   net    what the fetch yields: a body, or NoDocument for an error status, a
\*          transport exception or exhausted retries,
\*   write  writing the cache file succeeds ("ok"), fails before the file is
\*          opened ("fail") or fails after open() truncated it ("trunc")
WriteModes == {"ok", "fail", "trunc"}

Outcomes ==
    {o \in [read : BOOLEAN, net : {NoDocument} \cup {Document(d) : d \in Docs}, write : WriteModes] :
        ~o.net.ok => o.write = "ok"}

\* the nominal outcome: the cache file is readable, the site serves DocA, the
\* write succeeds
Nominal == [read |-> TRUE, net |-> Document(DocA), write |-> "ok"]

(***************************************************************************)
(* _get_page_content.                                                      *)
(***************************************************************************)
\* every query URL of a scraper
RECURSIVE UrlSeq(_, _)
UrlSeq(s, i) ==
    IF i > Len(Categories(s)) THEN <<>>
    ELSE UrlTable[s][Categories(s)[i].key] \o UrlSeq(s, i + 1)

AllUrlTable ==
    [mal |-> Range(UrlSeq(MAL, 1)), anidb |-> Range(UrlSeq(ANIDB, 1)),
     animeplanet |-> Range(UrlSeq(ANIMEPLANET, 1))]

AllUrls(s) == AllUrlTable[s]

\* _get_cache_filename of the URLs from the i-th on, by URL
RECURSIVE FilesByUrl(_, _, _)
FilesByUrl(s, urls, i) ==
    IF i > Len(urls) THEN <<>>
    ELSE (urls[i] :> GetCacheFilename(s, urls[i])) @@ FilesByUrl(s, urls, i + 1)

\* _get_cache_filename of every query URL, computed once
CacheFileOf ==
    [mal |-> FilesByUrl(MAL, UrlSeq(MAL, 1), 1), anidb |-> FilesByUrl(ANIDB, UrlSeq(ANIDB, 1), 1),
     animeplanet |-> FilesByUrl(ANIMEPLANET, UrlSeq(ANIMEPLANET, 1), 1)]

\* the cache files of all query URLs
CacheFiles == UNION {{CacheFileOf[s][url] : url \in AllUrls(s)} : s \in Scrapers}

\* _make_request of MALScraper and AnimePlanetScraper, session.get with
\* raise_for_status of AniDBScraper: the body or None
MakeRequest(s, url, o) == o.net

\* a variant of WriteCache: a failed write removes the cache file
WriteCacheRemovesOnFailure(files, cache_file, body, mode) ==
    CASE mode = "ok" -> [files EXCEPT ![cache_file] = File(body)]
      [] mode = "trunc" -> [files EXCEPT ![cache_file] = File(EmptyBody)]
      [] OTHER -> [files EXCEPT ![cache_file] = NoFile]

\* the cache file after open(cache_file, 'w') and f.write(response)
WriteCache(files, cache_file, body, mode) ==
    CASE mode = "ok" -> [files EXCEPT ![cache_file] = File(body)]
      [] mode = "trunc" -> [files EXCEPT ![cache_file] = File(EmptyBody)]
      [] OTHER -> files

\* what one _get_page_content call did: the file it looked for, what was there
\* before and after, the outcome env it met, whether a request was sent, what
\* the request fetched and the page returned
CallRecord(url, cache_file, o, before, after, requested, fetched, page) ==
    [url |-> url, file |-> cache_file, env |-> o, existed |-> before.exists,
     before |-> before, after |-> after, requested |-> requested, fetched |-> fetched,
     page |-> page]

\* "Try to load from cache first": the file exists and f.read() returns
LoadFromCache(files, url, cache_file, o) ==
    [cache |-> files,
     page |-> Document(files[cache_file].body),
     call |-> CallRecord(url, cache_file, o, files[cache_file], files[cache_file], FALSE,
                         NoDocument, Document(files[cache_file].body))]

\* the download returned None
NotDownloaded(files, url, cache_file, o) ==
    [cache |-> files,
     page |-> NoDocument,
     call |-> CallRecord(url, cache_file, o, files[cache_file], files[cache_file], TRUE,
                         NoDocument, NoDocument)]

\* the download returned response: it is returned after the attempt to save
\* it, which left the cache as saved
Downloaded(files, url, cache_file, o, response, saved) ==
    [cache |-> saved,
     page |-> response,
     call |-> CallRecord(url, cache_file, o, files[cache_file], saved[cache_file], TRUE,
                         response, response)]

\* a variant of Download: a response that could not be saved is not returned
DownloadLosesUnsavedBody(files, url, cache_file, o, response) ==
    IF ~response.ok \/ o.write # "ok" THEN NotDownloaded(files, url, cache_file, o)
    ELSE Downloaded(files, url, cache_file, o, response,
                    WriteCache(files, cache_file, response.body, o.write))

\* "Download if not in cache": None without a response, else the response
\* after the attempt to save it
Download(files, url, cache_file, o, response) ==
    IF ~response.ok THEN NotDownloaded(files, url, cache_file, o)
    ELSE Downloaded(files, url, cache_file, o, response,
                    WriteCache(files, cache_file, response.body, o.write))

\* a variant of GetPageContentAt: the cache file is never looked at
GetPageContentAlwaysDownloads(files, s, url, o, cache_file) ==
    Download(files, url, cache_file, o, MakeRequest(s, url, o))

\* BaseScraper._get_page_content with cache_file computed: an unreadable
\* cache file is logged and the call goes on to download
GetPageContentAt(files, s, url, o, cache_file) ==
    IF files[cache_file].exists /\ o.read
    THEN LoadFromCache(files, url, cache_file, o)
    ELSE Download(files, url, cache_file, o, MakeRequest(s, url, o))

\* BaseScraper._get_page_content: the cache after the call, the page returned
\* and the record of the call
BaseGetPageContent(files, s, url, o) ==
    GetPageContentAt(files, s, url, o, CacheFileOf[s][url])

\* AniDBScraper._get_page_content: the same steps in its own copy
AniDBGetPageContent(files, url, o) ==
    GetPageContentAt(files, ANIDB, url, o, CacheFileOf[ANIDB][url])

GetPageContent(files, s, url, o) ==
    IF s = ANIDB THEN AniDBGetPageContent(files, url, o) ELSE BaseGetPageContent(files, s, url, o)

(***************************************************************************)
(* scrape_category and scrape_all_categories.                              *)
(***************************************************************************)
\* a variant of ExtractPage: the extractors are not told the limit
ExtractWholePage(s, page, category_name, tag, limit) ==
    IF ~page.ok \/ page.body = <<>> THEN <<>>
    ELSE CASE s = MAL -> ParseAnimeSearchList(page.body, category_name, Len(page.body), <<>>)
           [] s = ANIDB -> ParseAnimeList(page.body, category_name, Len(page.body), 1)
           [] s = ANIMEPLANET -> ExtractCards(page.body, tag, Len(page.body))

\* the records one fetched page yields: _parse_anime_search_list in
\* _scrape_single_genre, _parse_anime_list in AniDBScraper.scrape_category, the
\* card loop in _scrape_single_tag; "if not html_content" gives no records
ExtractPage(s, page, category_name, tag, limit) ==
    IF ~page.ok \/ page.body = <<>> THEN <<>>
    ELSE CASE s = MAL -> ParseAnimeSearchList(page.body, category_name, limit, <<>>)
           [] s = ANIDB -> ParseAnimeList(page.body, category_name, limit, 1)
           [] s = ANIMEPLANET -> ExtractCards(page.body, tag, limit)

\* the tag _scrape_single_tag is called with for the i-th URL of a category
TagOf(s, key, i) ==
    IF s = ANIDB THEN JoinComma(Category(s, key).filters) ELSE Category(s, key).filters[i]

\* one pass of the loop over the query URLs: got is what _get_page_content
\* gave for the i-th URL, its records extend all_anime
PoolStep(s, key, limit, i, acc, got) ==
    [cache |-> got.cache,
     calls |-> Append(acc.calls, got.call),
     all_anime |-> acc.all_anime \o
         ExtractPage(s, got.page, Category(s, key).name, TagOf(s, key, i), limit)]

\* the loop over the query URLs of a category from the i-th on
RECURSIVE PoolCategory(_, _, _, _, _, _)
PoolCategory(s, key, limit, env, i, acc) ==
    IF i > Len(CategoryUrls(s, key)) THEN acc
    ELSE PoolCategory(s, key, limit, env, i + 1,
             PoolStep(s, key, limit, i, acc,
                      GetPageContent(acc.cache, s, CategoryUrls(s, key)[i],
                                     env[CategoryUrls(s, key)[i]])))

\* what scrape_category returns from the pooled records: AniDB the list as
\* parsed, MAL and AnimePlanet the merged list
Returned(s, key, limit, pooled) ==
    [cache |-> pooled.cache,
     calls |-> pooled.calls,
     all_anime |-> pooled.all_anime,
     result |-> IF s = ANIDB THEN pooled.all_anime
                ELSE MergeAnime(pooled.all_anime, Category(s, key).name, limit)]

\* a variant of ScrapeCategory: an unknown key empties the cache
ScrapeCategoryClearsCache(files, s, key, limit, env) ==
    IF ~HasCategory(s, key)
    THEN [cache |-> [f \in DOMAIN files |-> NoFile], calls |-> <<>>, all_anime |-> <<>>,
          result |-> <<>>]
    ELSE Returned(s, key, limit,
                  PoolCategory(s, key, limit, env, 1,
                               [cache |-> files, calls |-> <<>>, all_anime |-> <<>>]))

\* scrape_category: the cache after the call, the _get_page_content calls
\* made, the pooled records and the list returned
ScrapeCategory(files, s, key, limit, env) ==
    IF ~HasCategory(s, key)
    THEN [cache |-> files, calls |-> <<>>, all_anime |-> <<>>, result |-> <<>>]
    ELSE Returned(s, key, limit,
                  PoolCategory(s, key, limit, env, 1,
                               [cache |-> files, calls |-> <<>>, all_anime |-> <<>>]))

\* results[category_key] = self.scrape_category(category_key, limit)
StoreCategory(acc, key, got) ==
    [cache |-> got.cache,
     calls |-> acc.calls \o got.calls,
     results |-> Append(acc.results, [key |-> key, list |-> got.result])]

\* scrape_all_categories from the i-th category on: results is the dict in
\* insertion order
RECURSIVE ScrapeAllCategories(_, _, _, _, _)
ScrapeAllCategories(s, limit, env, i, acc) ==
    IF i > Len(Categories(s)) THEN acc
    ELSE ScrapeAllCategories(s, limit, env, i + 1,
             StoreCategory(acc, Categories(s)[i].key,
                           ScrapeCategory(acc.cache, s, Categories(s)[i].key, limit, env)))

(***************************************************************************)
(* The state machine of the scrapers.                                      *)
(***************************************************************************)
\* the category keys the test scripts pass to scrape_category
TestKeys(s) ==
    CASE s = MAL -> {"top_anime", "most_popular", "top_movie"}
      [] s = ANIDB -> {"highest_rated", "top_anime"}
      [] s = ANIMEPLANET -> {"highest_rated"}

\* the keys scrape_category is called with
KeyInputs(s) == {"action_adventure_shounen", "romance"} \cup TestKeys(s)

\* the URLs of a scrape_category call
UrlsOfKey(s, key) == IF HasCategory(s, key) THEN Range(CategoryUrls(s, key)) ELSE {}

\* the URLs _get_page_content is called with directly
UrlInputs(s) == UrlsOfKey(s, "action_adventure_shounen") \cup UrlsOfKey(s, "romance")

Limits == 0..MaxLimit

\* the outcomes one URL can meet: a failing read needs a file to read
OutcomesAt(files, s, url) == {o \in Outcomes : ~o.read => files[CacheFileOf[s][url]].exists}

\* the environments of a call that asks for the URLs urls: all nominal but at
\* most MaxDeviations of them
Envs(files, s, urls) ==
    UNION {{[u \in urls |-> IF u \in D THEN g[u] ELSE Nominal] :
               g \in {h \in [D -> Outcomes \ {Nominal}] : \A u \in D : h[u] \in OutcomesAt(files, s, u)}} :
              D \in {E \in SUBSET urls : Cardinality(E) <= MaxDeviations}}

VARIABLES
    cache,      \* html_cache: cache file name -> its content, or NoFile
    fetches,    \* cache file name -> number of successful downloads of its URL
    last,       \* the last handler call: its arguments, what it did, what it returned
    nOps        \* handler calls made

vars == <<cache, fetches, last, nOps>>

NoCall ==
    [op |-> "none", scraper |-> "", key |-> "", url |-> <<>>, limit |-> 0, calls |-> <<>>,
     all_anime |-> <<>>, result |-> <<>>, page |-> NoDocument, results |-> <<>>]

\* the downloads a sequence of _get_page_content calls adds
CountFetches(count, calls) ==
    [f \in DOMAIN count |->
        count[f] + Cardinality({i \in 1..Len(calls) : calls[i].file = f /\ calls[i].fetched.ok})]

Init ==
    /\ cache = [f \in CacheFiles |-> NoFile]
    /\ fetches = [f \in CacheFiles |-> 0]
    /\ last = NoCall
    /\ nOps = 0

\* a handler returns: the cache is as it left it and last describes the call
Return(files, calls, call) ==
    /\ cache' = files
    /\ fetches' = CountFetches(fetches, calls)
    /\ last' = call
    /\ nOps' = nOps + (IF call.op = "scrape_all_categories" THEN BatchOps ELSE 1)

GetPageContentReturns(s, url, got) ==
    Return(got.cache, <<got.call>>,
           [NoCall EXCEPT !.op = "get_page_content", !.scraper = s, !.url = url,
                          !.calls = <<got.call>>, !.page = got.page])

ScrapeCategoryReturns(s, key, limit, got) ==
    Return(got.cache, got.calls,
           [NoCall EXCEPT !.op = "scrape_category", !.scraper = s, !.key = key,
                          !.limit = limit, !.calls = got.calls,
                          !.all_anime = got.all_anime, !.result = got.result])

ScrapeAllCategoriesReturns(s, limit, got) ==
    Return(got.cache, got.calls,
           [NoCall EXCEPT !.op = "scrape_all_categories", !.scraper = s,
                          !.limit = limit, !.calls = got.calls, !.results = got.results])

CallGetPageContent(s, url, o) ==
    GetPageContentReturns(s, url, GetPageContent(cache, s, url, o))

CallScrapeCategory(s, key, limit, env) ==
    ScrapeCategoryReturns(s, key, limit, ScrapeCategory(cache, s, key, limit, env))

CallScrapeAllCategories(s, limit, env) ==
    ScrapeAllCategoriesReturns(s, limit,
        ScrapeAllCategories(s, limit, env, 1,
                            [cache |-> cache, calls |-> <<>>, results |-> <<>>]))

\* one _get_page_content call of some scraper, under some outcome
GetPageContentStep ==
    /\ nOps < MaxOps
    /\ \E s \in Scrapers : \E url \in UrlInputs(s) : \E o \in OutcomesAt(cache, s, url) :
          CallGetPageContent(s, url, o)

\* one scrape_category call of some scraper, under some environment
ScrapeCategoryStep ==
    /\ nOps < MaxOps
    /\ \E s \in Scrapers, limit \in Limits : \E key \in KeyInputs(s) :
          \E env \in Envs(cache, s, UrlsOfKey(s, key)) : CallScrapeCategory(s, key, limit, env)

\* one scrape_all_categories call of some scraper, under some environment
ScrapeAllCategoriesStep ==
    /\ nOps + BatchOps <= MaxOps
    /\ \E s \in Scrapers : \E env \in Envs(cache, s, AllUrls(s)) :
          CallScrapeAllCategories(s, MaxLimit, env)

Next == GetPageContentStep \/ ScrapeCategoryStep \/ ScrapeAllCategoriesStep

Spec == Init /\ [][Next]_vars

(***************************************************************************)
(* The merge step on its own: MergeSpec starts from any pooled list of at  *)
(* most MaxPool records the extractors can produce and applies the merge   *)
(* of scrape_category to it.                                               *)
(***************************************************************************)
PoolTitles == {<<"X">>, <<"x">>, <<"Y">>}

PoolScores == {<<>>, <<"0", ".", "0">>, <<"8", ".", "0">>, <<"9", ".", "5">>}

PoolRow(title, score) ==
    [link |-> TRUE, title |-> title, score |-> score, cells |-> 5,
     href |-> <<"/", "anime", "/", "1">>, info |-> <<"TV", "12">>]

PoolRows == {PoolRow(title, score) : title \in PoolTitles, score \in PoolScores}

\* the documents of at most MaxPool rows
PoolDocs == UNION {[1..n -> PoolRows] : n \in 0..MaxPool}

\* the scrapers whose scrape_category merges
MergeScrapers == {MAL, ANIMEPLANET}

\* all_anime as the extractor of s fills it from rows
Pooled(s, key, rows) ==
    ExtractPage(s, Document(rows), Category(s, key).name, TagOf(s, key, 1), Len(rows))

MergeInit ==
    /\ cache = [f \in CacheFiles |-> NoFile]
    /\ fetches = [f \in CacheFiles |-> 0]
    /\ nOps = 0
    /\ \E s \in MergeScrapers, limit \in Limits, rows \in PoolDocs :
          last = [NoCall EXCEPT !.op = "pooled", !.scraper = s, !.key = "romance",
                                !.limit = limit, !.all_anime = Pooled(s, "romance", rows)]

\* scrape_category from "Remove duplicates based on title" to its return
MergeStep ==
    /\ last.op = "pooled"
    /\ last' = [last EXCEPT !.op = "merge",
                            !.result = MergeAnime(last.all_anime,
                                                  Category(last.scraper, last.key).name,
                                                  last.limit)]
    /\ nOps' = nOps + 1
    /\ UNCHANGED <<cache, fetches>>

MergeSpec == MergeInit /\ [][MergeStep]_vars

(***************************************************************************)
(* Vocabulary of the properties.                                           *)
(***************************************************************************)
\* last is a merge: the merge step alone, or a scrape_category call of MAL or
\* AnimePlanet on a key of its table
IsMerge ==
    \/ last.op = "merge"
    \/ last.op = "scrape_category" /\ last.scraper \in MergeScrapers
          /\ HasCategory(last.scraper, last.key)

\* last is a scrape_category call on a key of the scraper's table
IsCategoryCall == last.op = "scrape_category" /\ HasCategory(last.scraper, last.key)

Titles(list) == {list[i].title : i \in 1..Len(list)}

ScoresOfTitle(list, title) ==
    {ParseScore(list[i].score) : i \in {j \in 1..Len(list) : list[j].title = title}}

\* the largest parsed score among the records of list with this title
GroupMax(list, title) ==
    CHOOSE m \in ScoresOfTitle(list, title) : \A x \in ScoresOfTitle(list, title) : x <= m

\* the place where title first occurs in list
FirstIndex(list, title) ==
    CHOOSE i \in 1..Len(list) :
        list[i].title = title /\ \A j \in 1..(i - 1) : list[j].title # title

Min(a, b) == IF a < b THEN a ELSE b

\* ranks "1", "2", ... in list order
RankedFromOne(list) == \A i \in 1..Len(list) : list[i].rank = DecStr(i)

\* parsed scores never rise along the list
Descending(list) ==
    \A i \in 1..Len(list) : \A j \in (i + 1)..Len(list) :
        ParseScore(list[i].score) >= ParseScore(list[j].score)

\* the entries the extractor of the scraper finds in a page when no limit
\* stops it
Entries(s, key, page) ==
    ExtractPage(s, page, Category(s, key).name, TagOf(s, key, 1), Len(page.body))

\* the records of the pages of calls from the i-th on, extracted under limit
RECURSIVE ExtractedFrom(_, _, _, _, _)
ExtractedFrom(s, key, limit, calls, i) ==
    IF i > Len(calls) THEN <<>>
    ELSE ExtractPage(s, calls[i].page, Category(s, key).name, TagOf(s, key, i), limit)
             \o ExtractedFrom(s, key, limit, calls, i + 1)

\* the query URL of one filter value of MAL or AnimePlanet
SingleFilterUrl(s, filter) == IF s = MAL THEN MALGenreUrl(filter) ELSE BuildTagUrl(filter)

\* last is a scrape_category call on a category of one query URL whose page
\* was obtained
IsSingleUrlCall ==
    /\ IsCategoryCall
    /\ Len(CategoryUrls(last.scraper, last.key)) = 1
    /\ Len(last.calls) = 1
    /\ last.calls[1].page.ok

(***************************************************************************)
(* Properties of the cache (C1, C2, C3), checked under Spec.               *)
(***************************************************************************)
\* C1 as the specification states it: whenever the cache file of the URL
\* exists, _get_page_content returns its contents and sends no request.
C1_CacheHitUnconditional ==
    \A i \in 1..Len(last.calls) :
        last.calls[i].existed =>
            /\ ~last.calls[i].requested
            /\ last.calls[i].page = Document(last.calls[i].before.body)

\* C1, as the code has it: whenever the cache file of the URL exists and
\* reading it succeeds, _get_page_content returns its contents and sends no
\* request, in every scraper and after any earlier calls.
C1_CacheHitWhenReadable ==
    \A i \in 1..Len(last.calls) :
        (last.calls[i].existed /\ last.calls[i].env.read) =>
            /\ ~last.calls[i].requested
            /\ last.calls[i].page = Document(last.calls[i].before.body)
            /\ last.calls[i].after = last.calls[i].before

\* a second call finds the file an earlier call cached (DocB, which only a
\* deviating fetch serves) and returns it
C1_Witness ==
    /\ nOps = MaxOps
    /\ \E i \in 1..Len(last.calls) :
          /\ last.calls[i].existed /\ last.calls[i].env.read
          /\ last.calls[i].before = File(DocB)
          /\ last.calls[i].page = Document(DocB)

\* C2 as the specification states it: an existing cache entry is never
\* overwritten, refreshed or removed, and no URL is fetched successfully more
\* than once.
C2_NeverRewritten ==
    [][\A f \in CacheFiles :
          /\ cache[f].exists => cache'[f] = cache[f]
          /\ fetches'[f] <= 1]_vars

\* C2, as the code has it: an existing cache entry is never removed, and it
\* is rewritten, or its URL fetched again, only by a call whose read of the
\* entry failed and whose fetch succeeded.
C2_RewrittenOnlyAfterFailedRead ==
    [][\A f \in CacheFiles :
          cache[f].exists =>
              /\ cache'[f].exists
              /\ (cache'[f] # cache[f] \/ fetches'[f] > fetches[f]) =>
                     \E i \in 1..Len(last'.calls) :
                         /\ last'.calls[i].file = f
                         /\ ~last'.calls[i].env.read
                         /\ last'.calls[i].fetched.ok]_vars

\* an entry that could not be read has been replaced by the body fetched anew
C2_Witness ==
    \E i \in 1..Len(last.calls) :
        /\ last.calls[i].existed /\ ~last.calls[i].env.read
        /\ last.calls[i].fetched.ok
        /\ last.calls[i].after.exists
        /\ last.calls[i].after # last.calls[i].before
        /\ fetches[last.calls[i].file] = 2

\* C3: _get_page_content always returns a value, None or a body; when the
\* fetch fails it returns None and leaves the cache file of the URL as it
\* was; when the fetch succeeds it returns the fetched body, whether or not
\* the body could be written to the cache.
C3_FailuresAreValues ==
    \A i \in 1..Len(last.calls) :
        /\ last.calls[i].page \in {NoDocument, Document(last.calls[i].page.body)}
        /\ (last.calls[i].requested /\ ~last.calls[i].env.net.ok) =>
               /\ last.calls[i].page = NoDocument
               /\ last.calls[i].after = last.calls[i].before
        /\ (last.calls[i].requested /\ last.calls[i].env.net.ok) =>
               last.calls[i].page = last.calls[i].env.net

\* a fetched body is returned although writing the cache file failed
C3_Witness ==
    \E i \in 1..Len(last.calls) :
        /\ last.calls[i].requested /\ last.calls[i].env.net.ok
        /\ last.calls[i].env.write = "fail"
        /\ ~last.calls[i].after.exists
        /\ last.calls[i].page = Document(DocB)

(***************************************************************************)
(* Properties of the merge (C4, C5, C6), checked under MergeSpec.          *)
(***************************************************************************)
\* C4: the merged list has no more records than the pooled list, at most one
\* record per title, and the parsed score of each record is the largest
\* parsed score among the pooled records of its title.
C4_Deduplicated ==
    IsMerge =>
        /\ Len(last.result) <= Len(last.all_anime)
        /\ \A i, j \in 1..Len(last.result) :
               last.result[i].title = last.result[j].title => i = j
        /\ \A i \in 1..Len(last.result) :
               ParseScore(last.result[i].score) = GroupMax(last.all_anime, last.result[i].title)

\* a later record of a title has the better score and has replaced the first
C4_Witness ==
    /\ last.op = "merge"
    /\ \E i, j \in 1..Len(last.all_anime) :
          /\ i < j
          /\ last.all_anime[i].title = last.all_anime[j].title
          /\ ParseScore(last.all_anime[j].score) > ParseScore(last.all_anime[i].score)
          /\ \E k \in 1..Len(last.result) :
                /\ last.result[k].title = last.all_anime[j].title
                /\ last.result[k].score = last.all_anime[j].score

\* C5 as the specification states it: records are merged exactly when
\* normalize_title gives their titles one key, so the merged list has one
\* record per normalized title, up to the limit.
C5_GroupsByNormalizedTitle ==
    IsMerge =>
        Len(last.result) =
            Min(last.limit, Cardinality({NormalizeTitle(t) : t \in Titles(last.all_anime)}))

\* C5, as the code has it: records are merged exactly when their title
\* strings are equal, so the merged list has one record per distinct title
\* string, up to the limit, and titles that differ only in letter case stay
\* apart.
C5_GroupsByExactTitle ==
    IsMerge =>
        /\ Len(last.result) = Min(last.limit, Cardinality(Titles(last.all_anime)))
        /\ Titles(last.result) \subseteq Titles(last.all_anime)

\* two titles with one normalize_title key are both in the merged list
C5_Witness ==
    /\ last.op = "merge"
    /\ \E i, j \in 1..Len(last.result) :
          /\ last.result[i].title # last.result[j].title
          /\ NormalizeTitle(last.result[i].title) = NormalizeTitle(last.result[j].title)

\* C6: for a limit >= 0 the merged list has at most limit records, ranked
\* "1", "2", ... in list order, with parsed scores that never rise, and
\* records of equal parsed score stand in the order in which their titles
\* first occur in the pooled list.
C6_RankedByScore ==
    IsMerge =>
        /\ Len(last.result) <= last.limit
        /\ RankedFromOne(last.result)
        /\ Descending(last.result)
        /\ \A i \in 1..Len(last.result) : \A j \in (i + 1)..Len(last.result) :
               ParseScore(last.result[i].score) = ParseScore(last.result[j].score) =>
                   FirstIndex(last.all_anime, last.result[i].title)
                       < FirstIndex(last.all_anime, last.result[j].title)

\* two records tie, and the first of them owes its score to a later record
\* of its title
C6_Witness ==
    /\ last.op = "merge"
    /\ Len(last.result) >= 2
    /\ ParseScore(last.result[1].score) = ParseScore(last.result[2].score)
    /\ last.all_anime[1].title = last.result[1].title
    /\ last.all_anime[1].score # last.result[1].score

(***************************************************************************)
(* Properties of scrape_category and scrape_all_categories (C7 - C10),     *)
(* checked under Spec.                                                     *)
(***************************************************************************)
\* C7 as the specification states it: a category of one query URL whose
\* document lists more entries than the limit and at least limit distinct
\* titles yields exactly limit records, ranked from 1 by descending score.
C7_FillsLimit ==
    (/\ IsSingleUrlCall
     /\ Len(Entries(last.scraper, last.key, last.calls[1].page)) > last.limit
     /\ Cardinality(Titles(Entries(last.scraper, last.key, last.calls[1].page))) >= last.limit) =>
        /\ Len(last.result) = last.limit
        /\ RankedFromOne(last.result)
        /\ Descending(last.result)

\* C7, as the code has it: for a category of one query URL the extractor of
\* MAL and AnimePlanet stops at the first limit entries of the document, and
\* scrape_category returns one record per distinct title among these
\* entries, ranked from 1 by descending score; AniDB returns at most limit
\* records, as extracted and in document order; and
\* scrape_all_categories stores one list of at most limit records under each
\* category key, in the order of the category table, each record labelled
\* with the category name.
C7_FillsFromFirstEntries ==
    /\ IsSingleUrlCall =>
          /\ last.scraper \in MergeScrapers =>
                 /\ last.all_anime
                        = Take(Entries(last.scraper, last.key, last.calls[1].page), last.limit)
                 /\ Len(last.result) = Cardinality(Titles(last.all_anime))
                 /\ RankedFromOne(last.result)
                 /\ Descending(last.result)
          /\ last.scraper = ANIDB =>
                 /\ last.result = last.all_anime
                 /\ Len(last.result) <= last.limit
    /\ last.op = "scrape_all_categories" =>
          /\ Len(last.results) = Len(Categories(last.scraper))
          /\ \A i \in 1..Len(last.results) :
                 /\ last.results[i].key = Categories(last.scraper)[i].key
                 /\ Len(last.results[i].list) <= last.limit
                 /\ \A j \in 1..Len(last.results[i].list) :
                        last.results[i].list[j].category = Categories(last.scraper)[i].name

\* the document has more entries than the limit and limit distinct titles,
\* yet fewer than limit records are returned
C7_Witness ==
    /\ IsSingleUrlCall
    /\ last.scraper \in MergeScrapers
    /\ Len(Entries(last.scraper, last.key, last.calls[1].page)) > last.limit
    /\ Cardinality(Titles(Entries(last.scraper, last.key, last.calls[1].page))) >= last.limit
    /\ last.result # <<>>
    /\ Len(last.result) < last.limit

\* C8 as the specification states it: in each scraper a category of k filter
\* values makes scrape_category ask for k query URLs.
C8_OneUrlPerFilterValue ==
    IsCategoryCall => Len(last.calls) = Len(Category(last.scraper, last.key).filters)

\* C8, as the code has it: MAL and AnimePlanet ask for one query URL per
\* filter value, in configured order, AniDB asks for a single query URL that
\* carries all filter values joined by commas; the records of all documents
\* asked for are pooled in that order, and the merge works on the pool.
C8_UrlsOfCategory ==
    IsCategoryCall =>
        /\ last.scraper \in MergeScrapers =>
               /\ Len(last.calls) = Len(Category(last.scraper, last.key).filters)
               /\ \A i \in 1..Len(last.calls) :
                      last.calls[i].url
                          = SingleFilterUrl(last.scraper,
                                            Category(last.scraper, last.key).filters[i])
               /\ last.result = MergeAnime(last.all_anime,
                                           Category(last.scraper, last.key).name, last.limit)
        /\ last.scraper = ANIDB =>
               /\ Len(last.calls) = 1
               /\ last.calls[1].url = AniDBCategoryUrl(Category(ANIDB, last.key).filters)
        /\ last.all_anime = ExtractedFrom(last.scraper, last.key, last.limit, last.calls, 1)

\* AniDB has scraped a category of three tags with one request, and MAL-like
\* pooling is not involved
C8_Witness ==
    /\ IsCategoryCall
    /\ last.scraper = ANIDB
    /\ Len(Category(ANIDB, last.key).filters) = 3
    /\ Len(last.calls) = 1
    /\ last.calls[1].requested
    /\ last.result # <<>>

\* C9: scrape_category with a key that is not in the category table returns
\* the empty list, calls _get_page_content not at all (no request, no cache
\* read or write) and leaves the cache as it was, so that later calls find
\* what they would have found without it.
C9_UnknownKeyIsNoOp ==
    [][(last'.op = "scrape_category" /\ ~HasCategory(last'.scraper, last'.key)) =>
          /\ last'.result = <<>>
          /\ last'.all_anime = <<>>
          /\ last'.calls = <<>>
          /\ cache' = cache
          /\ fetches' = fetches]_vars

\* an unknown key was passed when the cache already held a file
C9_Witness ==
    /\ last.op = "scrape_category"
    /\ ~HasCategory(last.scraper, last.key)
    /\ last.result = <<>>
    /\ \E f \in CacheFiles : cache[f].exists

\* C10 as the specification states it: every key the test scripts pass to
\* scrape_category is in the table of the scraper it is passed to, and the
\* call asks for at least one query URL.
C10_TestKeysSupported ==
    (last.op = "scrape_category" /\ last.key \in TestKeys(last.scraper)) =>
        /\ HasCategory(last.scraper, last.key)
        /\ Len(last.calls) >= 1

(***************************************************************************)
(* Properties of the records (C11), checked under Spec.                    *)
(***************************************************************************)
\* C11 as the specification states it: every record scrape_category returns
\* has a title that is neither empty nor "N/A"; an entry without a title is
\* skipped.
C11_TitlesNonEmpty ==
    last.op = "scrape_category" =>
        \A i \in 1..Len(last.result) :
            last.result[i].title # <<>> /\ last.result[i].title # NA

(***************************************************************************)
(* The record schema (C19), checked under Spec.                            *)
(***************************************************************************)
RecordFields ==
    {"rank", "title", "score", "url", "additional_info", "source", "category"}

\* C19 as the specification states it: every record scrape_category returns
\* carries exactly the fields rank, title, score, url, additional_info,
\* source and category, and its category is the category's display name.
C19_RecordSchema ==
    IsCategoryCall =>
        \A i \in 1..Len(last.result) :
            /\ DOMAIN last.result[i] = RecordFields
            /\ last.result[i].category = Category(last.scraper, last.key).name

(***************************************************************************)
(* AnimeDataAnalyzer.normalize_title on its own: TitleSpec draws a title,  *)
(* applies normalize_title to it and again to the result, or applies it to *)
(* the title and to a re-cased, de-punctuated variant of the title.        *)
(***************************************************************************)
\* the characters titles are drawn from: letters of both cases, a digit,
\* whitespace, punctuation
TitleChars == {"a", "B", "1", " ", "!", "_"}

Punctuation == {"!", "_"}

UpperChar(c) ==
    IF c \in Range(LowerChars)
    THEN UpperChars[CHOOSE i \in 1..Len(LowerChars) : LowerChars[i] = c]
    ELSE c

RECURSIVE TitlesUpTo(_)
TitlesUpTo(n) ==
    IF n = 0 THEN {<<>>}
    ELSE TitlesUpTo(n - 1)
             \cup {Append(t, c) : t \in {u \in TitlesUpTo(n - 1) : Len(u) = n - 1},
                                  c \in TitleChars}

TitleInputs == TitlesUpTo(MaxTitleLen)

\* what one character of a title may become in a variant: a letter keeps or
\* changes its case, a punctuation character stays or is deleted
CharVariants(c) ==
    IF c \in Punctuation THEN {<<c>>, <<>>}
    ELSE {<<c>>, <<LowerChar(c)>>, <<UpperChar(c)>>}

RECURSIVE Variants(_)
Variants(x) ==
    IF x = <<>> THEN {<<>>}
    ELSE {h \o t : h \in CharVariants(Head(x)), t \in Variants(Tail(x))}

TitleInit ==
    /\ cache = [f \in CacheFiles |-> NoFile]
    /\ fetches = [f \in CacheFiles |-> 0]
    /\ nOps = 0
    /\ \E x \in TitleInputs : last = [op |-> "title", x |-> x, out |-> <<>>]

\* normalize_title(x), then normalize_title of what it returned
NormalizeTitleStep ==
    /\ last.op \in {"title", "normalize_title"}
    /\ Len(last.out) < MaxApplications
    /\ last' = [op |-> "normalize_title", x |-> last.x,
                out |-> Append(last.out,
                               NormalizeTitle(IF last.out = <<>> THEN last.x
                                              ELSE last.out[Len(last.out)]))]
    /\ nOps' = nOps + 1
    /\ UNCHANGED <<cache, fetches>>

\* normalize_title(x) and normalize_title(y) for a variant y of x
NormalizeVariantStep ==
    /\ last.op = "title"
    /\ \E y \in Variants(last.x) \ {last.x} :
          last' = [op |-> "variant", x |-> last.x, y |-> y,
                   out |-> <<NormalizeTitle(last.x), NormalizeTitle(y)>>]
    /\ nOps' = nOps + 1
    /\ UNCHANGED <<cache, fetches>>

TitleNext == NormalizeTitleStep \/ NormalizeVariantStep

TitleSpec == TitleInit /\ [][TitleNext]_vars

\* C15 as the specification states it: normalize_title is idempotent,
\* normalize_title(normalize_title(x)) = normalize_title(x) for every title.
C15_Idempotent ==
    (last.op = "normalize_title" /\ Len(last.out) >= 2) => last.out[2] = last.out[1]

\* C16 as the specification states it: normalize_title gives the same result
\* for a title and for any variant of it that differs in the case of letters
\* and in deleted punctuation characters.
C16_CaseAndPunctuationInsensitive ==
    last.op = "variant" => last.out[1] = last.out[2]

(***************************************************************************)
(* data_analyzer.py: the combined results as the analyzer reads them.      *)
(* self.data is the mapping of the combined file in key order: a sequence  *)
(* of [source, categories], categories a sequence of [key, list].          *)
(***************************************************************************)
\* the order run_all_scrapers fills all_results in
SourceOrder == <<MAL, ANIDB, ANIMEPLANET>>

\* the keys of all_results
ResultKey(s) ==
    CASE s = MAL -> "myanimelist"
      [] s = ANIDB -> "anidb"
      [] s = ANIMEPLANET -> "animeplanet"

\* the records placed in the lists: the fields the analyzer reads
AnalyzerPool == {
    [title |-> <<"X", "!">>, score |-> <<"9", ".", "5">>, rank |-> <<"1">>],
    [title |-> <<"x">>, score |-> <<"9", ".", "5", " ", "(", "3", ")">>, rank |-> <<"2">>],
    [title |-> <<" ", "x">>, score |-> <<"8">>, rank |-> <<"2">>],
    [title |-> <<"Y", "o", " ", "y", "o", "u">>, score |-> <<"1", "1">>, rank |-> <<"1">>],
    [title |-> NA, score |-> NA, rank |-> <<"3">>] }

\* the category lists records are placed in; every other list is empty
AnalyzerSlots ==
    {<<MAL, "action_adventure_shounen">>, <<MAL, "romance">>,
     <<ANIDB, "romance">>, <<ANIMEPLANET, "romance">>}

Placements == {[slot |-> sl, anime |-> a] : sl \in AnalyzerSlots, a \in AnalyzerPool}

RECURSIVE SeqsUpTo(_, _)
SeqsUpTo(S, n) ==
    IF n = 0 THEN {<<>>}
    ELSE SeqsUpTo(S, n - 1)
             \cup {Append(t, c) : t \in {u \in SeqsUpTo(S, n - 1) : Len(u) = n - 1}, c \in S}

RECURSIVE ListOf(_, _, _)
ListOf(placed, s, key) ==
    IF placed = <<>> THEN <<>>
    ELSE IF Head(placed).slot = <<s, key>>
    THEN <<Head(placed).anime>> \o ListOf(Tail(placed), s, key)
    ELSE ListOf(Tail(placed), s, key)

\* the combined mapping: every source, every category of the source
CombinedData(placed) ==
    [i \in 1..Len(SourceOrder) |->
        [source |-> ResultKey(SourceOrder[i]),
         categories |->
             [j \in 1..Len(Categories(SourceOrder[i])) |->
                 [key |-> Categories(SourceOrder[i])[j].key,
                  list |-> ListOf(placed, SourceOrder[i], Categories(SourceOrder[i])[j].key)]]]]

\* a combined mapping with more common titles than the report keeps: titles
\* 101 .. 100 + n in two sources, the last of them in the third as well
ManyTitles(n) ==
    [i \in 1..n |-> [title |-> DecStr(100 + i), score |-> <<"9", ".", "5">>, rank |-> DecStr(i)]]

ManyData(n) ==
    <<[source |-> ResultKey(MAL),
       categories |-> <<[key |-> "romance", list |-> ManyTitles(n)]>>],
      [source |-> ResultKey(ANIDB),
       categories |-> <<[key |-> "romance", list |-> ManyTitles(n)]>>],
      [source |-> ResultKey(ANIMEPLANET),
       categories |-> <<[key |-> "romance", list |-> <<ManyTitles(n)[n]>>]>>]>>

\* for source, categories in self.data.items(): for category, anime_list in
\* categories.items(): for anime in anime_list -- the records in loop order
RECURSIVE CategoryOccurrences(_, _, _)
CategoryOccurrences(source, categories, j) ==
    IF j > Len(categories) THEN <<>>
    ELSE [k \in 1..Len(categories[j].list) |->
             [source |-> source, category |-> categories[j].key,
              anime |-> categories[j].list[k]]]
         \o CategoryOccurrences(source, categories, j + 1)

RECURSIVE Occurrences(_, _)
Occurrences(data, i) ==
    IF i > Len(data) THEN <<>>
    ELSE CategoryOccurrences(data[i].source, data[i].categories, 1)
             \o Occurrences(data, i + 1)

(***************************************************************************)
(* find_common_anime.  title_sources and title_data are one table in       *)
(* insertion order: [title, sources, data].                                *)
(***************************************************************************)
\* the positions 1 .. n in order
Indices(n) == [i \in 1..n |-> i]

\* the keys of a dict in insertion order: the positions at which a key of the
\* sequence occurs for the first time
FirstOccurrences(keys) ==
    SelectSeq(Indices(Len(keys)), LAMBDA i : \A j \in 1..(i - 1) : keys[j] # keys[i])

\* the positions at which the key occurs, in order
PositionsOf(keys, key) == SelectSeq(Indices(Len(keys)), LAMBDA i : keys[i] = key)

\* title = self.normalize_title(anime.get('title', '')) of every record
TitleKeys(occs) == [i \in 1..Len(occs) |-> NormalizeTitle(occs[i].anime.title)]

\* the entry appended to title_data[title]
DataEntry(occ) ==
    [source |-> occ.source, category |-> occ.category, rank |-> occ.anime.rank,
     score |-> occ.anime.score, original_title |-> occ.anime.title]

\* title_sources[title] and title_data[title] once the loops are through
TitleEntry(occs, title, positions) ==
    [title |-> title,
     sources |-> {occs[positions[k]].source : k \in 1..Len(positions)},
     data |-> [k \in 1..Len(positions) |-> DataEntry(occs[positions[k]])]]

\* if title: ... -- the titles in insertion order, the empty title left out
TitleTable(occs, keys, firsts) ==
    [k \in 1..Len(firsts) |->
        TitleEntry(occs, keys[firsts[k]], PositionsOf(keys, keys[firsts[k]]))]

CollectTitles(occs) ==
    TitleTable(occs, TitleKeys(occs),
               SelectSeq(FirstOccurrences(TitleKeys(occs)),
                         LAMBDA i : NormalizeTitle(occs[i].anime.title) # <<>>))

\* a variant of IsCommon: a title is common when it occurs more than once
IsCommonByOccurrences(entry) == Len(entry.data) > 1

\* if len(sources) > 1
IsCommon(entry) == Cardinality(entry.sources) > 1

\* common_anime in insertion order; 'sources' is list(set), kept as the set
CommonEntry(entry) ==
    [title |-> entry.title, sources |-> entry.sources,
     source_count |-> Cardinality(entry.sources), data |-> entry.data]

CommonEntries(selected) == [k \in 1..Len(selected) |-> CommonEntry(selected[k])]

CommonAnime(table) == CommonEntries(SelectSeq(table, IsCommon))

\* the largest key of a non-empty list
MaxKey(items, key) ==
    CHOOSE m \in {items[i][key] : i \in 1..Len(items)} :
        \A i \in 1..Len(items) : items[i][key] <= m

\* sorted(..., key=..., reverse=True): stable, so the items with the largest
\* key come first in their original order, then the sorted rest
RECURSIVE SortDescending(_, _)
LargestFirst(items, key, m) ==
    SelectSeq(items, LAMBDA e : e[key] = m)
        \o SortDescending(SelectSeq(items, LAMBDA e : e[key] # m), key)

SortDescending(items, key) ==
    IF Len(items) = 0 THEN <<>> ELSE LargestFirst(items, key, MaxKey(items, key))

\* sorted_common[:50]
TopCommonCap == 50

\* self.analysis_results['common_anime']
CommonReport(common_anime) ==
    [total_common |-> Len(common_anime),
     top_common |-> Take(SortDescending(common_anime, "source_count"), TopCommonCap)]

FindCommonAnime(data) ==
    CommonReport(CommonAnime(CollectTitles(Occurrences(data, 1))))

(***************************************************************************)
(* Statistics (statistics.mean / median, min, max) over a non-empty list   *)
(* of records, taken on one field.  A mean is kept as the fraction         *)
(* num / den.                                                              *)
(***************************************************************************)
RECURSIVE SumOf(_, _, _)
SumOf(items, key, n) == IF n = 0 THEN 0 ELSE items[n][key] + SumOf(items, key, n - 1)

Mean(items, key) == [num |-> SumOf(items, key, Len(items)), den |-> Len(items)]

\* median of the list sorted on the field: the middle element, or the mean of
\* the two middle elements
MedianOfSorted(sorted, key) ==
    IF Len(sorted) % 2 = 1
    THEN [num |-> sorted[(Len(sorted) + 1) \div 2][key], den |-> 1]
    ELSE [num |-> sorted[Len(sorted) \div 2][key] + sorted[Len(sorted) \div 2 + 1][key],
          den |-> 2]

(***************************************************************************)
(* analyze_scores.                                                         *)
(***************************************************************************)
\* a decimal literal float() accepts: digits, digits '.', digits '.' digits,
\* '.' digits (the score texts of this model hold no exponent, no
\* underscore and no letter other than those of "N/A")
IsFloatLiteral(u) ==
    \/ /\ DigitRun(u) > 0
       /\ \/ Len(u) = DigitRun(u)
          \/ /\ u[DigitRun(u) + 1] = "."
             /\ DigitRun(Drop(u, DigitRun(u) + 1)) = Len(u) - DigitRun(u) - 1
    \/ /\ Len(u) > 1
       /\ Head(u) = "."
       /\ DigitRun(Tail(u)) = Len(u) - 1

\* the literal without its sign
Unsigned(t) == IF t # <<>> /\ Head(t) \in {"+", "-"} THEN Tail(t) ELSE t

\* float(score_str) does not raise ValueError: surrounding whitespace is
\* ignored, the rest must be a literal as a whole
FloatParses(score_str) == IsFloatLiteral(Unsigned(Strip(score_str)))

\* float(score_str) as an integer number of 10^-ScoreFracDigits
FloatValue(score_str) ==
    IF Strip(score_str) # <<>> /\ Head(Strip(score_str)) = "-"
    THEN 0 - FloatOfMatch(Unsigned(Strip(score_str)))
    ELSE FloatOfMatch(Unsigned(Strip(score_str)))

\* score_str != 'N/A', float(score_str) succeeds, 0 <= score <= 10
ScoreCounts(score_str) ==
    /\ score_str # NA
    /\ FloatParses(score_str)
    /\ 0 <= FloatValue(score_str)
    /\ FloatValue(score_str) <= 10 * Pow10(ScoreFracDigits)

\* the records appended to all_scores, in loop order, with their value
ScoreEntries(selected) ==
    [k \in 1..Len(selected) |->
        [source |-> selected[k].source, score |-> FloatValue(selected[k].anime.score)]]

ScoredOccurrences(occs) ==
    ScoreEntries(SelectSeq(occs, LAMBDA occ : ScoreCounts(occ.anime.score)))

\* the keys of source_scores in insertion order
SourceKeys(scored) == [i \in 1..Len(scored) |-> scored[i].source]

SourceAverage(scored, source) ==
    [source |-> source,
     average |-> Mean(SelectSeq(scored, LAMBDA e : e.source = source), "score")]

\* for source, scores in source_scores.items(): mean(scores)
SourceAverages(scored, firsts) ==
    [k \in 1..Len(firsts) |-> SourceAverage(scored, scored[firsts[k]].source)]

ScoreStats(scored, sorted) ==
    [total_scored_anime |-> Len(scored),
     average_score |-> Mean(scored, "score"),
     median_score |-> MedianOfSorted(sorted, "score"),
     min_score |-> sorted[Len(sorted)].score,
     max_score |-> sorted[1].score,
     source_averages |-> SourceAverages(scored, FirstOccurrences(SourceKeys(scored)))]

\* if all_scores: self.analysis_results['score_analysis'] = score_stats
StoreScoreStats(analysis_results, scored) ==
    IF scored = <<>> THEN analysis_results
    ELSE ("score_analysis" :> ScoreStats(scored, SortDescending(scored, "score")))
             @@ analysis_results

AnalyzeScores(data, analysis_results) ==
    StoreScoreStats(analysis_results, ScoredOccurrences(Occurrences(data, 1)))

(***************************************************************************)
(* title_analysis.                                                         *)
(***************************************************************************)
\* all_titles with their lengths: the stripped titles that are neither empty
\* nor "N/A"
TitleEntries(selected) ==
    [k \in 1..Len(selected) |->
        [title |-> Strip(selected[k].anime.title),
         length |-> Len(Strip(selected[k].anime.title))]]

AllTitles(occs) ==
    TitleEntries(SelectSeq(occs, LAMBDA occ : /\ Strip(occ.anime.title) # <<>>
                                              /\ Strip(occ.anime.title) # NA))

\* length of the run of \w characters at the start of s
RECURSIVE WordRun(_)
WordRun(s) == IF s # <<>> /\ IsWordChar(Head(s)) THEN 1 + WordRun(Tail(s)) ELSE 0

\* re.findall(r'\b\w+\b', s): the maximal runs of \w characters
RECURSIVE FindWords(_)
FindWords(s) ==
    IF s = <<>> THEN <<>>
    ELSE IF IsWordChar(Head(s)) THEN <<Take(s, WordRun(s))>> \o FindWords(Drop(s, WordRun(s)))
    ELSE FindWords(Tail(s))

\* the words of all titles in loop order
RECURSIVE AllWords(_)
AllWords(titles) ==
    IF titles = <<>> THEN <<>>
    ELSE FindWords(Lower(Head(titles).title)) \o AllWords(Tail(titles))

WordCounts(words, firsts) ==
    [k \in 1..Len(firsts) |->
        [word |-> words[firsts[k]], count |-> Len(PositionsOf(words, words[firsts[k]]))]]

\* word_counter.update(words) for every title: the counter in insertion order
CountWords(titles) == WordCounts(AllWords(titles), FirstOccurrences(AllWords(titles)))

\* Counter.most_common(n)
MostCommon(counter, n) == Take(SortDescending(counter, "count"), n)

\* word_counter.most_common(50)
CommonWordsCap == 50

TitleStats(titles, sorted) ==
    [total_titles |-> Len(titles),
     average_length |-> Mean(titles, "length"),
     median_length |-> MedianOfSorted(sorted, "length"),
     min_length |-> sorted[Len(sorted)].length,
     max_length |-> sorted[1].length]

\* if title_lengths: self.analysis_results['title_analysis'] = {...}
StoreTitleAnalysis(analysis_results, titles) ==
    IF titles = <<>> THEN analysis_results
    ELSE ("title_analysis" :>
              [statistics |-> TitleStats(titles, SortDescending(titles, "length")),
               common_words |-> MostCommon(CountWords(titles), CommonWordsCap)])
             @@ analysis_results

TitleAnalysis(data, analysis_results) ==
    StoreTitleAnalysis(analysis_results, AllTitles(Occurrences(data, 1)))

(***************************************************************************)
(* The analyzer as a state machine: load_data has read a combined mapping, *)
(* the analysis functions fill self.analysis_results.                      *)
(***************************************************************************)
AnalyzerInputs ==
    {CombinedData(placed) : placed \in SeqsUpTo(Placements, MaxRecords)}
        \cup {ManyData(TopCommonCap + 1)}

AnalyzerInit ==
    /\ cache = [f \in CacheFiles |-> NoFile]
    /\ fetches = [f \in CacheFiles |-> 0]
    /\ nOps = 0
    /\ \E data \in AnalyzerInputs :
          last = [op |-> "load_data", data |-> data, analysis_results |-> <<>>]

FindCommonAnimeStep ==
    /\ last' = [last EXCEPT
                   !.op = "find_common_anime",
                   !.analysis_results =
                       ("common_anime" :> FindCommonAnime(last.data)) @@ @]
    /\ UNCHANGED <<cache, fetches, nOps>>

AnalyzeScoresStep ==
    /\ last' = [last EXCEPT
                   !.op = "analyze_scores",
                   !.analysis_results = AnalyzeScores(last.data, @)]
    /\ UNCHANGED <<cache, fetches, nOps>>

TitleAnalysisStep ==
    /\ last' = [last EXCEPT
                   !.op = "title_analysis",
                   !.analysis_results = TitleAnalysis(last.data, @)]
    /\ UNCHANGED <<cache, fetches, nOps>>

AnalyzerNext == FindCommonAnimeStep \/ AnalyzeScoresStep \/ TitleAnalysisStep

AnalyzerSpec == AnalyzerInit /\ [][AnalyzerNext]_vars

(***************************************************************************)
(* Properties of the analyzer, checked under AnalyzerSpec.                 *)
(***************************************************************************)
\* the records whose title normalizes to the given title, in loop order
OccurrencesOfTitle(occs, title) ==
    SelectSeq(occs, LAMBDA occ : NormalizeTitle(occ.anime.title) = title)

\* the source keys the title occurs under
SourcesOfTitle(occs, title) ==
    {occs[i].source : i \in {j \in 1..Len(occs) : NormalizeTitle(occs[j].anime.title) = title}}

\* the non-empty normalized titles that occur under at least two source keys
CommonTitles(occs) ==
    {t \in {NormalizeTitle(occs[i].anime.title) : i \in 1..Len(occs)} :
        t # <<>> /\ Cardinality(SourcesOfTitle(occs, t)) >= 2}

\* the data entries of a reported title are its occurrences, one by one
DataOfOccurrences(data, found) ==
    /\ Len(data) = Len(found)
    /\ \A k \in 1..Len(found) :
          /\ data[k].source = found[k].source
          /\ data[k].category = found[k].category
          /\ data[k].rank = found[k].anime.rank
          /\ data[k].score = found[k].anime.score

ReportsTitle(occs, e) ==
    /\ e.title # <<>>
    /\ Cardinality(SourcesOfTitle(occs, e.title)) >= 2
    /\ e.sources = SourcesOfTitle(occs, e.title)
    /\ e.source_count = Cardinality(SourcesOfTitle(occs, e.title))
    /\ DataOfOccurrences(e.data, OccurrencesOfTitle(occs, e.title))

CommonReportOf(occs, report, common) ==
    /\ report.total_common = Cardinality(common)
    /\ Len(report.top_common) = Min(Cardinality(common), TopCommonCap)
    /\ \A i \in 1..Len(report.top_common) : ReportsTitle(occs, report.top_common[i])
    /\ \A i, j \in 1..Len(report.top_common) :
          i < j => /\ report.top_common[i].title # report.top_common[j].title
                   /\ report.top_common[i].source_count >= report.top_common[j].source_count
    /\ \A t \in common :
          (\A i \in 1..Len(report.top_common) : report.top_common[i].title # t)
              => \A i \in 1..Len(report.top_common) :
                     report.top_common[i].source_count >= Cardinality(SourcesOfTitle(occs, t))

HasResult(key) == last.op # "load_data" /\ key \in DOMAIN last.analysis_results

\* C17: the common-title report holds exactly the non-empty normalized titles
\* that occur under at least two source keys, each once, with the number of
\* its sources and one data entry per occurrence, ordered by non-increasing
\* source_count; total_common counts them all and the report keeps the first
\* TopCommonCap of them.
C17_CommonAnimeReport ==
    HasResult("common_anime") =>
        CommonReportOf(Occurrences(last.data, 1), last.analysis_results["common_anime"],
                       CommonTitles(Occurrences(last.data, 1)))

\* find_common_anime has reported a title of two sources with three occurrences
C17_Witness ==
    /\ last.op = "find_common_anime"
    /\ \E i \in 1..Len(last.analysis_results["common_anime"].top_common) :
          /\ last.analysis_results["common_anime"].top_common[i].source_count = 2
          /\ Len(last.analysis_results["common_anime"].top_common[i].data) = 3

\* find_common_anime has found more common titles than the report keeps
C17_CapReached ==
    /\ last.op = "find_common_anime"
    /\ last.analysis_results["common_anime"].total_common
           > Len(last.analysis_results["common_anime"].top_common)

\* C18 as the specification states it: the word-frequency table of the
\* report holds only words of more than two characters.
C18_OnlyLongWords ==
    HasResult("title_analysis") =>
        \A i \in 1..Len(last.analysis_results["title_analysis"].common_words) :
            Len(last.analysis_results["title_analysis"].common_words[i].word) > 2

\* the score text holds a decimal that the scrapers' _parse_score reads as a
\* value within [0, 10], and is not "N/A"
ParsesWithinRange(score_str) ==
    /\ score_str # NA
    /\ FirstDigit(score_str, 1) # 0
    /\ ParseScore(score_str) <= 10 * Pow10(ScoreFracDigits)

\* the number of scores the statistics were taken over
ScoredCount(analysis_results) ==
    IF "score_analysis" \in DOMAIN analysis_results
    THEN analysis_results["score_analysis"].total_scored_anime
    ELSE 0

\* C20 as the specification states it: the records that contribute to the
\* score statistics are exactly those whose score, read by the scrapers'
\* score-parsing rule, is a value within [0, 10].
C20_ContributesWhenParsed ==
    last.op = "analyze_scores" =>
        ScoredCount(last.analysis_results)
            = Len(SelectSeq(Occurrences(last.data, 1),
                            LAMBDA occ : ParsesWithinRange(occ.anime.score)))

(***************************************************************************)
(* run_all_scrapers.py as a process.  last holds the run: pc, the source   *)
(* being processed, all_results (a sequence of [source, categories] in     *)
(* insertion order), the data of the current source, the export files      *)
(* written so far with their content, the log of what the run did, and the *)
(* export files whose write fails during this run.                         *)
(***************************************************************************)
JsonFile(s) ==
    CASE s = MAL -> "mal_top_anime.json"
      [] s = ANIDB -> "anidb_top_anime.json"
      [] s = ANIMEPLANET -> "animeplanet_top_anime.json"

CsvFile(s) ==
    CASE s = MAL -> "mal_top_anime.csv"
      [] s = ANIDB -> "anidb_top_anime.csv"
      [] s = ANIMEPLANET -> "animeplanet_top_anime.csv"

CombinedFile == "all_anime_data_combined.json"

SummaryFile == "scraping_summary.json"

ExportFiles ==
    {JsonFile(s) : s \in Scrapers} \cup {CsvFile(s) : s \in Scrapers}
        \cup {CombinedFile, SummaryFile}

\* the sets of export files whose open() / dump raises during a run
FailingSets == {F \in SUBSET ExportFiles : Cardinality(F) <= MaxWriteFailures}

\* what the sites do during a run: every page as Nominal, every fetch failing,
\* every page DocB (rows the extractors pass over), or the first category
\* failing alone
SiteDown == [read |-> TRUE, net |-> NoDocument, write |-> "ok"]

ServesDocB == [read |-> TRUE, net |-> Document(DocB), write |-> "ok"]

RunEnvs(s) ==
    {[u \in AllUrls(s) |-> o] : o \in {Nominal, SiteDown, ServesDocB}}
        \cup {[u \in AllUrls(s) |->
                  IF u \in UrlsOfKey(s, Categories(s)[1].key) THEN SiteDown ELSE Nominal]}

\* all_results[key] = value
SetResult(all_results, key, value) ==
    IF \E i \in 1..Len(all_results) : all_results[i].source = key
    THEN [i \in 1..Len(all_results) |->
             IF all_results[i].source = key
             THEN [source |-> key, categories |-> value]
             ELSE all_results[i]]
    ELSE Append(all_results, [source |-> key, categories |-> value])

\* the rows save_to_csv flattens out of data
RECURSIVE AllAnime(_)
AllAnime(data) == IF data = <<>> THEN <<>> ELSE Head(data).list \o AllAnime(Tail(data))

\* the columns of the CSV file: AniDBScraper.save_to_csv names them,
\* BaseScraper.save_to_csv collects the keys of all records (the set is kept,
\* the header being its sorted list)
CsvFieldnames(s, all_anime) ==
    IF s = ANIDB
    THEN {"category", "rank", "title", "score", "url", "additional_info", "source"}
    ELSE UNION {DOMAIN all_anime[i] : i \in 1..Len(all_anime)}

\* a variant of AfterSource: the run goes on to the combined file after the
\* first source
AfterFirstSourceOnly(run) == [run EXCEPT !.pc = "combined", !.source = Len(SourceOrder) + 1]

\* what follows the try block of a source: time.sleep(5) and the next source,
\* or the combined results
AfterSource(run) ==
    IF run.source < Len(SourceOrder)
    THEN [run EXCEPT !.pc = "scrape", !.source = @ + 1]
    ELSE [run EXCEPT !.pc = "combined", !.source = @ + 1]

\* except Exception as e: all_results[key] = {}
ExceptBranch(run, s, file) ==
    AfterSource([run EXCEPT !.all_results = SetResult(@, ResultKey(s), <<>>),
                            !.failed = Append(@, file),
                            !.events = Append(@, <<"error", ResultKey(s)>>)])

\* the file is written: open(filepath, 'w') and the dump succeed
Written(run, file, content) ==
    [run EXCEPT !.exports = Append(@, [file |-> file, content |-> content]),
                !.events = Append(@, <<"write", file>>)]

\* scraper = XScraper(); data = scraper.scrape_all_categories(limit);
\* all_results[key] = data
ScrapedSource(run, s, got) ==
    [run EXCEPT !.pc = "save_to_json",
                !.data = got.results,
                !.calls = got.calls,
                !.all_results = SetResult(@, ResultKey(s), got.results),
                !.events = Append(@, <<"scrape", ResultKey(s)>>)]

\* scraper.save_to_json(data, '..._top_anime.json')
SaveToJson(run, s) ==
    IF JsonFile(s) \in run.failing THEN ExceptBranch(run, s, JsonFile(s))
    ELSE [Written(run, JsonFile(s), run.data) EXCEPT !.pc = "save_to_csv"]

\* scraper.save_to_csv(data, '..._top_anime.csv'), close() and the end of the
\* try block: without records no file is written
SaveToCsv(run, s) ==
    IF AllAnime(run.data) = <<>> THEN AfterSource(run)
    ELSE IF CsvFile(s) \in run.failing THEN ExceptBranch(run, s, CsvFile(s))
    ELSE AfterSource(Written(run, CsvFile(s),
                             [fieldnames |-> CsvFieldnames(s, AllAnime(run.data)),
                              rows |-> AllAnime(run.data)]))

\* the combined results: an exception of open() or json.dump leaves
\* run_all_scrapers
SaveCombined(run) ==
    IF CombinedFile \in run.failing
    THEN [run EXCEPT !.pc = "error", !.failed = Append(@, CombinedFile)]
    ELSE [Written(run, CombinedFile, run.all_results) EXCEPT !.pc = "summary"]

\* summary['sources'][source] of create_summary_report
SourceSummary(entry) ==
    [source |-> entry.source,
     categories_scraped |-> Len(entry.categories),
     total_anime_entries |-> Len(AllAnime(entry.categories)),
     categories |-> [j \in 1..Len(entry.categories) |->
                        [key |-> entry.categories[j].key,
                         count |-> Len(entry.categories[j].list)]]]

\* the summary without its scraping_timestamp
Summary(all_results) ==
    [total_sources |-> Len(all_results),
     sources |-> [i \in 1..Len(all_results) |-> SourceSummary(all_results[i])]]

\* create_summary_report(all_results) and the closing prints
CreateSummaryReport(run) ==
    IF SummaryFile \in run.failing
    THEN [run EXCEPT !.pc = "error", !.failed = Append(@, SummaryFile)]
    ELSE [Written(run, SummaryFile, Summary(run.all_results)) EXCEPT !.pc = "done"]

RunInit ==
    /\ cache = [f \in CacheFiles |-> NoFile]
    /\ fetches = [f \in CacheFiles |-> 0]
    /\ nOps = 0
    /\ \E F \in FailingSets :
          last = [op |-> "run_all_scrapers", pc |-> "scrape", source |-> 1,
                  all_results |-> <<>>, data |-> <<>>, calls |-> <<>>, exports |-> <<>>,
                  events |-> <<>>, failed |-> <<>>, failing |-> F]

ScrapeSourceReturns(s, got) ==
    /\ cache' = got.cache
    /\ fetches' = CountFetches(fetches, got.calls)
    /\ last' = ScrapedSource(last, s, got)
    /\ nOps' = nOps + 1

ScrapeSourceStep ==
    /\ last.pc = "scrape"
    /\ \E env \in RunEnvs(SourceOrder[last.source]) :
          ScrapeSourceReturns(SourceOrder[last.source],
              ScrapeAllCategories(SourceOrder[last.source], MaxLimit, env, 1,
                                  [cache |-> cache, calls |-> <<>>, results |-> <<>>]))

SaveToJsonStep ==
    /\ last.pc = "save_to_json"
    /\ last' = SaveToJson(last, SourceOrder[last.source])
    /\ UNCHANGED <<cache, fetches, nOps>>

SaveToCsvStep ==
    /\ last.pc = "save_to_csv"
    /\ last' = SaveToCsv(last, SourceOrder[last.source])
    /\ UNCHANGED <<cache, fetches, nOps>>

SaveCombinedStep ==
    /\ last.pc = "combined"
    /\ last' = SaveCombined(last)
    /\ UNCHANGED <<cache, fetches, nOps>>

CreateSummaryReportStep ==
    /\ last.pc = "summary"
    /\ last' = CreateSummaryReport(last)
    /\ UNCHANGED <<cache, fetches, nOps>>

RunNext ==
    \/ ScrapeSourceStep
    \/ SaveToJsonStep
    \/ SaveToCsvStep
    \/ SaveCombinedStep
    \/ CreateSummaryReportStep

RunSpec == RunInit /\ [][RunNext]_vars

\* weak fairness of ScrapeSourceStep, with its enabling condition written out:
\* the step is enabled exactly when pc = "scrape" (RunEnvs is never empty and
\* the step changes pc)
ScrapeSourceFair == []<>(last.pc # "scrape") \/ []<><<ScrapeSourceStep>>_vars

\* the script is one thread that runs to its end: every enabled step is taken
FairRunSpec ==
    /\ RunSpec
    /\ ScrapeSourceFair
    /\ WF_vars(SaveToJsonStep)
    /\ WF_vars(SaveToCsvStep)
    /\ WF_vars(SaveCombinedStep)
    /\ WF_vars(CreateSummaryReportStep)

(***************************************************************************)
(* Properties of a run, checked under RunSpec and FairRunSpec.             *)
(***************************************************************************)
CategoryKeys(categories) == [j \in 1..Len(categories) |-> categories[j].key]

ConfiguredKeys(s) == [j \in 1..Len(Categories(s)) |-> Categories(s)[j].key]

SourceOfKey(key) == CHOOSE s \in Scrapers : ResultKey(s) = key

\* every source entry of the mapping holds the configured category keys of
\* its source, in configured order
EveryCategoryPresent(all_results) ==
    \A i \in 1..Len(all_results) :
        CategoryKeys(all_results[i].categories)
            = ConfiguredKeys(SourceOfKey(all_results[i].source))

\* C12 as the specification states it: in every result mapping of a run (the
\* result of each scrape_all_categories, all_results, the combined file) every
\* configured category key of the source is present, in configured order; a
\* failed category is an empty list, never absent.
C12_EveryCategoryPresent ==
    /\ last.pc = "save_to_json" =>
          CategoryKeys(last.data) = ConfiguredKeys(SourceOrder[last.source])
    /\ EveryCategoryPresent(last.all_results)
    /\ \A k \in 1..Len(last.exports) :
          last.exports[k].file = CombinedFile => EveryCategoryPresent(last.exports[k].content)

\* the first category of the source an URL is asked for
CategoryIndex(s, url) ==
    CHOOSE j \in 1..Len(Categories(s)) :
        /\ url \in UrlsOfKey(s, Categories(s)[j].key)
        /\ \A k \in 1..(j - 1) : url \notin UrlsOfKey(s, Categories(s)[k].key)

\* the pages of one scrape_all_categories call are asked for category by
\* category, in configured order
CategoriesInTurn ==
    \E s \in Scrapers :
        /\ \A i \in 1..Len(last.calls) : last.calls[i].url \in AllUrls(s)
        /\ \A i, j \in 1..Len(last.calls) :
              i < j => CategoryIndex(s, last.calls[i].url) <= CategoryIndex(s, last.calls[j].url)

\* what the run does for one source when no write fails
SourceEvents(s, categories) ==
    << <<"scrape", ResultKey(s)>>, <<"write", JsonFile(s)>> >>
        \o (IF AllAnime(categories) = <<>> THEN <<>> ELSE << <<"write", CsvFile(s)>> >>)

\* the whole run when no write fails: the three sources one after the other,
\* the combined file, the summary
CompleteRun(all_results) ==
    SourceEvents(MAL, all_results[1].categories)
        \o SourceEvents(ANIDB, all_results[2].categories)
        \o SourceEvents(ANIMEPLANET, all_results[3].categories)
        \o << <<"write", CombinedFile>>, <<"write", SummaryFile>> >>

IsPrefix(a, b) == Len(a) <= Len(b) /\ a = SubSeq(b, 1, Len(a))

\* the sources are scraped in the order MyAnimeList, AniDB, AnimePlanet
SourcesInTurn ==
    IsPrefix(SelectSeq(last.events, LAMBDA e : e[1] = "scrape"),
             << <<"scrape", "myanimelist">>, <<"scrape", "anidb">>,
                <<"scrape", "animeplanet">> >>)

\* the run has reported completion after the combined file, with exactly the
\* three source keys and every category of every source, and then the summary
RunCompleted ==
    /\ last.pc = "done"
    /\ Len(last.all_results) = 3
    /\ last.events = CompleteRun(last.all_results)
    /\ last.exports[Len(last.exports) - 1]
           = [file |-> CombinedFile, content |-> last.all_results]
    /\ [i \in 1..3 |-> last.all_results[i].source] = <<"myanimelist", "anidb", "animeplanet">>
    /\ EveryCategoryPresent(last.all_results)
    /\ last.exports[Len(last.exports)]
           = [file |-> SummaryFile, content |-> Summary(last.all_results)]

\* C13: whatever fetches and extractions fail, a run whose file writes succeed
\* processes MyAnimeList, AniDB, AnimePlanet in this order, each category in
\* its turn, and eventually has written the combined file with exactly the
\* three source keys and then the summary.
C13_BatchCompletes ==
    /\ [](CategoriesInTurn /\ SourcesInTurn)
    /\ (last.failing = {}) ~> RunCompleted

\* a run without write failures has completed although a category of a source
\* came back empty beside a non-empty one
C13_Witness ==
    /\ RunCompleted
    /\ last.failing = {}
    /\ \E i \in 1..3 : \E j, k \in 1..Len(last.all_results[i].categories) :
          /\ last.all_results[i].categories[j].list = <<>>
          /\ last.all_results[i].categories[k].list # <<>>

\* C14 as the specification states it: once the write of an export file has
\* failed the run is in its error state: no further source is scraped and the
\* run does not report completion.
C14_ExportFailureIsTerminal ==
    last.failed # <<>> => last.pc = "error"

(***************************************************************************)
(* The life of a record: FrameSpec puts the merge step, a run of           *)
(* run_all_scrapers and the analysis functions side by side, each on its   *)
(* own inputs.                                                             *)
(***************************************************************************)
AnalyzerOps == {"load_data", "find_common_anime", "analyze_scores", "title_analysis"}

FrameInit == MergeInit \/ RunInit \/ AnalyzerInit

FrameNext ==
    \/ MergeStep
    \/ last.op = "run_all_scrapers" /\ RunNext
    \/ last.op \in AnalyzerOps /\ AnalyzerNext

FrameSpec == FrameInit /\ [][FrameNext]_vars

\* the fields the merge step assigns
MergeAssigns == {"rank", "category"}

\* a and b are the same record but for the fields the merge step assigns
SameButRankAndCategory(a, b) ==
    /\ DOMAIN a \ MergeAssigns = DOMAIN b \ MergeAssigns
    /\ \A f \in DOMAIN a \ MergeAssigns : a[f] = b[f]

\* the record is one of list but for rank and category
FromExtraction(anime, list) ==
    \E j \in 1..Len(list) : SameButRankAndCategory(anime, list[j])

\* the record of a category of the current source is one the extractor finds
\* in a page fetched for a query URL of that category
FromFetchedPage(anime, s, key, calls) ==
    \E t \in 1..Len(CategoryUrls(s, key)) : \E c \in 1..Len(calls) :
        /\ calls[c].url = CategoryUrls(s, key)[t]
        /\ FromExtraction(anime,
               ExtractPage(s, calls[c].page, Category(s, key).name, TagOf(s, key, t),
                           Len(calls[c].page.body)))

\* every record the merge step returns is an extracted one but for rank and
\* category
MergeKeepsRecords ==
    last.op = "merge" =>
        \A i \in 1..Len(last.result) : FromExtraction(last.result[i], last.all_anime)

\* every record scrape_all_categories hands to the run is an extracted one but
\* for rank and category
RunHoldsExtractedRecords ==
    last.op = "run_all_scrapers" /\ last.pc \in {"save_to_json", "save_to_csv"} =>
        \A k \in 1..Len(last.data) : \A i \in 1..Len(last.data[k].list) :
            FromFetchedPage(last.data[k].list[i], SourceOrder[last.source],
                            last.data[k].key, last.calls)

\* the categories of a source in all_results stay as they are, or the whole
\* mapping of the source is replaced by the empty one
ResultsKept(before, after) ==
    /\ Len(after) = Len(before)
    /\ \A i \in 1..Len(before) :
          /\ after[i].source = before[i].source
          /\ after[i].categories \in {before[i].categories, <<>>}

\* a step that saves: data stays as it is and what was written is what was held
SavingKeepsRecords ==
    last.op = "run_all_scrapers" /\ last.pc # "scrape" =>
        /\ last'.data = last.data
        /\ ResultsKept(last.all_results, last'.all_results)
        /\ \A e \in 1..Len(last'.exports) :
              /\ last'.exports[e].file \in {JsonFile(s) : s \in Scrapers}
                    => last'.exports[e].content \in {last.data, last'.data}
                          \/ e <= Len(last.exports)
              /\ last'.exports[e].file \in {CsvFile(s) : s \in Scrapers}
                    => last'.exports[e].content.rows = AllAnime(last.data)
                          \/ e <= Len(last.exports)

\* an analysis function leaves the loaded mapping as it is
AnalysingKeepsRecords == last.op \in AnalyzerOps => last'.data = last.data

\* C21: the merge step changes only rank and category: every record it returns
\* has the title, the score string (the "N/A" sentinel included), url,
\* additional_info and source of an extracted record; every record a run holds
\* for a source is an extracted one in the same sense; saving and analysing a
\* result mapping change no record.
C21_OnlyRankAndCategoryChange ==
    /\ [](MergeKeepsRecords /\ RunHoldsExtractedRecords)
    /\ [][SavingKeepsRecords /\ AnalysingKeepsRecords]_vars

\* a merge returned a record without score under a rank other than the one
\* its extraction gave it
C21_Witness ==
    /\ last.op = "merge"
    /\ \E i \in 1..Len(last.result) : \E j \in 1..Len(last.all_anime) :
          /\ last.result[i].score = NA
          /\ SameButRankAndCategory(last.result[i], last.all_anime[j])
          /\ last.result[i].rank # last.all_anime[j].rank

(***************************************************************************)
(* Cache keys, read as the text of the file name.                          *)
(***************************************************************************)
\* the text a sequence of tokens spells
RECURSIVE TextOf(_)
TextOf(tokens) == IF tokens = <<>> THEN "" ELSE Head(tokens) \o TextOf(Tail(tokens))

\* the query URLs the three scrapers generate for their categories, by source
GeneratedUrls == {<<s, url>> : s \in Scrapers, url \in UNION {AllUrls(t) : t \in Scrapers}}
                     \cap UNION {{<<s, url>> : url \in AllUrls(s)} : s \in Scrapers}

\* the text of the cache key of every generated URL
KeyTextTable == [p \in GeneratedUrls |-> TextOf(GetCacheFilename(p[1], p[2]))]

\* C22: the cache key of a fetched URL is the one _get_cache_filename gives
\* for the scraper and the URL, whatever the cache holds and whatever was
\* fetched before, and no other query URL the three scrapers generate, of
\* the same or of another source, has a key of the same text.
C22_CacheKeysDistinct ==
    \A c \in 1..Len(last.calls) :
        /\ last.calls[c].file = GetCacheFilename(last.scraper, last.calls[c].url)
        /\ \A p \in GeneratedUrls :
              p # <<last.scraper, last.calls[c].url>>
                  => KeyTextTable[p] # TextOf(last.calls[c].file)

\* one scrape_category call fetched two different URLs of MAL, the second
\* time with a cache that already held files
C22_Witness ==
    /\ last.op = "scrape_category"
    /\ last.scraper = MAL
    /\ \E c, d \in 1..Len(last.calls) :
          /\ last.calls[c].url # last.calls[d].url
          /\ last.calls[c].file # last.calls[d].file
          /\ last.calls[d].existed

(***************************************************************************)
(* One page request as a process: _get_page_content on one query URL, the  *)
(* _make_request of the scraper with its sleeps and GET attempts, and the  *)
(* sleep of AniDBScraper.scrape_all_categories behind the category.  last  *)
(* holds the request: the scraper, the caller, pc, the number of the GET   *)
(* attempt, the log of what the call did so far and what it returned.      *)
(***************************************************************************)
\* time.sleep(2) at the head of _make_request (MAL and AnimePlanet)
PreRequestDelay == 2

\* time.sleep(5) behind an unexpected status or an exception, and the factor
\* of the wait behind a 403
RetryDelay == 5

\* time.sleep(3) behind every category of AniDBScraper.scrape_all_categories
CategoryDelay == 3

\* for attempt in range(3)
AnimePlanetAttempts == 3

\* 'MAX_RETRIES': 3 of SCRAPING_CONFIG
MAX_RETRIES == 3

\* requests of the same URL made one after the other
MaxRequests == 2

\* what a GET gives: a status code, or an exception of the transport
Answers == {"200", "403", "500", "exception"}

Callers == {"scrape_category", "scrape_all_categories"}

\* the URL the requests ask for: the query URL of the romance category
RequestUrl(s) == CategoryUrls(s, "romance")[1]

RequestFile(s) == CacheFileOf[s][RequestUrl(s)]

SleepEvent(n) == [e |-> "sleep", n |-> n, answer |-> ""]

GetEvent(k, answer) == [e |-> "get", n |-> k, answer |-> answer]

ReadEvent(ok) == [e |-> "read", n |-> 0, answer |-> IF ok THEN "ok" ELSE "error"]

\* the call returns: to scrape_all_categories of AniDB, which sleeps behind
\* the category, or to a caller that does not
Finish(run, result) ==
    [run EXCEPT !.returned = result,
                !.pc = IF run.scraper = ANIDB /\ run.caller = "scrape_all_categories"
                       THEN "category_sleep" ELSE "done"]

\* _get_page_content up to the download: a cache file that exists and can be
\* read is returned; otherwise MAL and AnimePlanet enter _make_request and
\* AniDB goes to its session.get
EnterGetPageContent(run, exists, readable) ==
    IF exists /\ readable
    THEN Finish([run EXCEPT !.log = <<ReadEvent(TRUE)>>], "document")
    ELSE [run EXCEPT !.log = IF exists THEN <<ReadEvent(FALSE)>> ELSE <<>>,
                     !.attempt = IF run.scraper = ANIDB THEN 1 ELSE 0,
                     !.pc = IF run.scraper = ANIDB THEN "get" ELSE "make_request"]

\* time.sleep(2) and the entry of the attempt
EnterMakeRequest(run) ==
    [run EXCEPT !.log = Append(@, SleepEvent(PreRequestDelay)), !.attempt = 1, !.pc = "get"]

\* the loop of animeplanet_debug.py, a variant of AnimePlanetResponse: an
\* unexpected status breaks out of the loop
AnimePlanetStopsOnUnexpected(run, answer) ==
    CASE answer = "200" -> Finish(run, "document")
      [] answer = "403" -> [run EXCEPT !.pc = "backoff"]
      [] answer = "exception" ->
           IF run.attempt = AnimePlanetAttempts THEN Finish(run, "none")
           ELSE [run EXCEPT !.pc = "retry_wait"]
      [] OTHER -> Finish(run, "none")

\* a variant of AnimePlanetResponse: a 200 does not leave the loop
AnimePlanetIgnoresSuccess(run, answer) ==
    IF answer = "403" THEN [run EXCEPT !.pc = "backoff"]
    ELSE IF run.attempt = AnimePlanetAttempts
    THEN Finish(run, IF answer = "200" THEN "document" ELSE "none")
    ELSE [run EXCEPT !.pc = "retry_wait"]

\* the branches of AnimePlanetScraper._make_request behind session.get: 200
\* returns the text, 403 goes to its wait, any other status and an exception
\* return None on the last attempt and wait otherwise
AnimePlanetResponse(run, answer) ==
    CASE answer = "200" -> Finish(run, "document")
      [] answer = "403" -> [run EXCEPT !.pc = "backoff"]
      [] OTHER -> IF run.attempt = AnimePlanetAttempts THEN Finish(run, "none")
                  ELSE [run EXCEPT !.pc = "retry_wait"]

\* MALScraper._make_request and the download of AniDBScraper._get_page_content:
\* session.get, raise_for_status, and None from the except branch
SingleAttemptResponse(run, answer) ==
    IF answer = "200" THEN Finish(run, "document") ELSE Finish(run, "none")

\* the request after the answer of its GET
Response(run, answer) ==
    IF run.scraper = ANIMEPLANET
    THEN AnimePlanetResponse([run EXCEPT !.log = Append(@, GetEvent(run.attempt, answer))],
                             answer)
    ELSE SingleAttemptResponse([run EXCEPT !.log = Append(@, GetEvent(run.attempt, answer))],
                               answer)

\* the 403 branch of animeplanet_debug.py, a variant of Backoff: the wait is
\* made only when an attempt is left (if attempt < 2)
BackoffBeforeRetryOnly(run) ==
    IF run.attempt = AnimePlanetAttempts THEN Finish(run, "none")
    ELSE [run EXCEPT !.log = Append(@, SleepEvent(RetryDelay * run.attempt)),
                     !.attempt = @ + 1, !.pc = "get"]

\* elif response.status_code == 403: time.sleep(5 * (attempt + 1)), then
\* None behind the last attempt
Backoff(run) ==
    IF run.attempt = AnimePlanetAttempts
    THEN Finish([run EXCEPT !.log = Append(@, SleepEvent(RetryDelay * run.attempt))], "none")
    ELSE [run EXCEPT !.log = Append(@, SleepEvent(RetryDelay * run.attempt)),
                     !.attempt = @ + 1, !.pc = "get"]

\* time.sleep(5) of the other branches, then the next attempt
RetryWait(run) ==
    [run EXCEPT !.log = Append(@, SleepEvent(RetryDelay)), !.attempt = @ + 1, !.pc = "get"]

\* a variant of CategorySleep: no sleep behind a category
NoCategorySleep(run) == [run EXCEPT !.pc = "done"]

\* time.sleep(3) of AniDBScraper.scrape_all_categories
CategorySleep(run) ==
    [run EXCEPT !.log = Append(@, SleepEvent(CategoryDelay)), !.pc = "done"]

\* the cache file after the call: a downloaded text is written unless the
\* write fails
CacheAfter(files, run, after, saved) ==
    IF after.returned = "document" /\ run.pc = "get" /\ saved
    THEN [files EXCEPT ![RequestFile(run.scraper)] = File(DocA)]
    ELSE files

RequestInit ==
    /\ fetches = [f \in CacheFiles |-> 0]
    /\ nOps = 1
    /\ \E s \in Scrapers, caller \in Callers, cached \in BOOLEAN :
          /\ cache = [f \in CacheFiles |->
                         IF cached /\ f = RequestFile(s) THEN File(DocA) ELSE NoFile]
          /\ last = [op |-> "request", scraper |-> s, caller |-> caller, pc |-> "call",
                     attempt |-> 0, log |-> <<>>, returned |-> "pending"]

GetPageContentEnters ==
    /\ last.pc = "call"
    /\ \E readable \in BOOLEAN :
          last' = EnterGetPageContent(last, cache[RequestFile(last.scraper)].exists, readable)
    /\ UNCHANGED <<cache, fetches, nOps>>

MakeRequestEnters ==
    /\ last.pc = "make_request"
    /\ last' = EnterMakeRequest(last)
    /\ UNCHANGED <<cache, fetches, nOps>>

SessionGet ==
    /\ last.pc = "get"
    /\ \E answer \in Answers, saved \in BOOLEAN :
          /\ last' = Response(last, answer)
          /\ cache' = CacheAfter(cache, last, Response(last, answer), saved)
          /\ fetches' = [fetches EXCEPT ![RequestFile(last.scraper)] =
                            @ + (IF answer = "200" THEN 1 ELSE 0)]
    /\ UNCHANGED nOps

BackoffStep ==
    /\ last.pc = "backoff"
    /\ last' = Backoff(last)
    /\ UNCHANGED <<cache, fetches, nOps>>

RetryWaitStep ==
    /\ last.pc = "retry_wait"
    /\ last' = RetryWait(last)
    /\ UNCHANGED <<cache, fetches, nOps>>

CategorySleepStep ==
    /\ last.pc = "category_sleep"
    /\ last' = CategorySleep(last)
    /\ UNCHANGED <<cache, fetches, nOps>>

\* the same URL is asked for again
NextRequest ==
    /\ last.pc = "done"
    /\ nOps < MaxRequests
    /\ last' = [last EXCEPT !.pc = "call", !.attempt = 0, !.log = <<>>,
                            !.returned = "pending"]
    /\ nOps' = nOps + 1
    /\ UNCHANGED <<cache, fetches>>

RequestNext ==
    \/ GetPageContentEnters
    \/ MakeRequestEnters
    \/ SessionGet
    \/ BackoffStep
    \/ RetryWaitStep
    \/ CategorySleepStep
    \/ NextRequest

RequestSpec == RequestInit /\ [][RequestNext]_vars

\* a call is one thread: a sleep ends, a GET is answered or raises (the
\* timeout of the session bounds it), and the next statement runs
FairRequestSpec ==
    /\ RequestSpec
    /\ WF_vars(GetPageContentEnters)
    /\ WF_vars(MakeRequestEnters)
    /\ WF_vars(SessionGet)
    /\ WF_vars(BackoffStep)
    /\ WF_vars(RetryWaitStep)
    /\ WF_vars(CategorySleepStep)

(***************************************************************************)
(* Properties of a page request, checked under RequestSpec and             *)
(* FairRequestSpec.                                                        *)
(***************************************************************************)
\* the places of the GET attempts in a log
Gets(log) == {i \in 1..Len(log) : log[i].e = "get"}

\* the places of the sleeps in a log
Sleeps(log) == {i \in 1..Len(log) : log[i].e = "sleep"}

\* the call has returned
HasReturned == last.returned # "pending"

\* the request is one of AnimePlanet that went to the network
IsAnimePlanetRequest == last.scraper = ANIMEPLANET /\ Gets(last.log) # {}

\* the GET attempts of the call are numbered 1, 2, ... and stay within the
\* budget of AnimePlanetScraper._make_request
WithinAttemptBudget ==
    /\ Cardinality(Gets(last.log)) <= AnimePlanetAttempts
    /\ \A i \in Gets(last.log) : last.log[i].n = Cardinality({j \in Gets(last.log) : j <= i})

\* a GET answered 200 is the last thing the call did, and its text is returned
FirstSuccessReturns ==
    \A i \in Gets(last.log) :
        last.log[i].answer = "200" => i = Len(last.log) /\ last.returned = "document"

\* None is returned only when no GET was answered 200, and then the call
\* returns nothing else
NoneWithoutSuccess ==
    HasReturned =>
        (last.returned = "none" <=> \A i \in Gets(last.log) : last.log[i].answer # "200")

\* C23: one _make_request call of AnimePlanet issues at most 3 GET attempts,
\* returns the text of the first attempt answered 200 without a further
\* attempt, returns None when no attempt is answered 200, and every call
\* that enters _make_request returns.
C23_RetryLoop ==
    /\ [](IsAnimePlanetRequest =>
              WithinAttemptBudget /\ FirstSuccessReturns /\ NoneWithoutSuccess)
    /\ (last.scraper = ANIMEPLANET /\ last.pc = "make_request") ~> HasReturned

\* a call of AnimePlanet returned the text of its third attempt
C23_Witness ==
    /\ IsAnimePlanetRequest
    /\ last.returned = "document"
    /\ Cardinality(Gets(last.log)) = AnimePlanetAttempts

\* the answers that are a status other than 200 and 403
UnexpectedStatus == {"500"}

\* C24: in the AnimePlanet fetcher an unexpected status (neither 200 nor 403)
\* is a terminal failure: the GET that received it is the last GET of the
\* call, no wait follows it, and the call returns None.
C24_UnexpectedStatusIsTerminal ==
    IsAnimePlanetRequest =>
        \A i \in Gets(last.log) :
            last.log[i].answer \in UnexpectedStatus
                => i = Len(last.log) /\ last.returned = "none"

\* the place in a log is a wait behind a GET answered 403
IsBackoffWait(log, i) ==
    /\ i > 1
    /\ log[i].e = "sleep"
    /\ log[i - 1].e = "get"
    /\ log[i - 1].answer = "403"

\* C25: behind a 403 on attempt k the AnimePlanet fetcher waits 5*k seconds,
\* every such wait is followed by attempt k+1, and behind the 403 of the
\* third attempt the call returns None without a further wait.
C25_BackoffOnlyBeforeRetry ==
    IsAnimePlanetRequest =>
        /\ \A i \in 1..Len(last.log) :
              IsBackoffWait(last.log, i) =>
                  /\ last.log[i].n = RetryDelay * last.log[i - 1].n
                  /\ last.log[i - 1].n < AnimePlanetAttempts
                  /\ HasReturned => /\ i < Len(last.log)
                                    /\ last.log[i + 1] \in
                                           {GetEvent(last.log[i - 1].n + 1, a) : a \in Answers}
        /\ \A i \in Gets(last.log) :
              (last.log[i].answer = "403" /\ last.log[i].n = AnimePlanetAttempts
                   /\ HasReturned)
                  => i = Len(last.log) /\ last.returned = "none"

\* C26: in each of the three scrapers a fetch that fails with a transport
\* error or a non-success status is made again until the budget of 3 attempts
\* is used up, and only then is no document reported to the caller.
C26_FailedFetchIsRetried ==
    /\ (last.returned = "none" /\ Gets(last.log) # {})
           => Cardinality(Gets(last.log)) = MAX_RETRIES
    /\ \A i \in Gets(last.log) :
           (last.log[i].answer # "200" /\ last.log[i].n < MAX_RETRIES)
               => last.returned = "pending" \/ i < Len(last.log)

\* the request was served from the cache file
ServedFromCache == last.log # <<>> /\ last.log[1] = ReadEvent(TRUE)

\* the request is over, the sleep of the caller included
RequestDone == last.pc = "done"

\* C27 as stated: the courtesy delay elapses on every page request, served
\* from the cache or downloaded: the 2 s sleep for MAL and AnimePlanet, the
\* 3 s sleep behind the category for AniDB in scrape_all_categories.
C27_DelayOnEveryRequest ==
    RequestDone =>
        IF last.scraper = ANIDB
        THEN last.caller = "scrape_all_categories"
                 => SleepEvent(CategoryDelay) \in Range(last.log)
        ELSE SleepEvent(PreRequestDelay) \in Range(last.log)

\* C27 amended: MAL and AnimePlanet sleep 2 s exactly when the request is
\* not served from the cache, once and before their first GET; AniDB never
\* sleeps before a request, and sleeps 3 s at the end of every category of
\* scrape_all_categories, served from the cache or not, and of no other call.
C27_DelayBeforeDownloadOnly ==
    RequestDone =>
        IF last.scraper = ANIDB
        THEN /\ SleepEvent(PreRequestDelay) \notin Range(last.log)
             /\ last.caller = "scrape_all_categories"
                    <=> last.log[Len(last.log)] = SleepEvent(CategoryDelay)
             /\ Cardinality(Sleeps(last.log))
                    = (IF last.caller = "scrape_all_categories" THEN 1 ELSE 0)
        ELSE /\ ServedFromCache <=> SleepEvent(PreRequestDelay) \notin Range(last.log)
             /\ ServedFromCache => Sleeps(last.log) = {} /\ Gets(last.log) = {}
             /\ ~ServedFromCache =>
                    /\ \E i \in 1..Len(last.log) :
                          /\ last.log[i] = SleepEvent(PreRequestDelay)
                          /\ \A j \in Gets(last.log) \cup Sleeps(last.log) : i <= j
                    /\ Gets(last.log) # {}

\* MAL downloaded the page and, asked again, served it from the cache file
\* without a sleep
C27_Witness ==
    /\ RequestDone
    /\ last.scraper = MAL
    /\ nOps = MaxRequests
    /\ fetches[RequestFile(MAL)] = 1
    /\ ServedFromCache
    /\ Sleeps(last.log) = {}

(***************************************************************************)
(* Properties of the title groups of the merge, of the ranks the           *)
(* extractors give, and of the data a run keeps.                           *)
(***************************************************************************)
\* the places of the records of one title in the pooled list
Group(list, title) == {j \in 1..Len(list) : list[j].title = title}

\* record a wins over record b: a has a parsed score and b has none, or both
\* have one and that of a is the higher
Beats(a, b) ==
    \/ a.score # NA /\ b.score = NA
    \/ a.score # NA /\ b.score # NA /\ ParseScore(a.score) > ParseScore(b.score)

\* the place in the group that no other place beats and that beats every
\* place before it
IsKeptPlace(list, k) ==
    \A j \in Group(list, list[k].title) :
        /\ ~Beats(list[j], list[k])
        /\ j < k => Beats(list[k], list[j])

\* C28: within one title group of the merge a record without parsed score
\* ("N/A") loses to any record with a parsed score, a parsed 0 or 0.0
\* included, whatever the order of encounter, and among records of equal
\* parsed score, or all without score, the first encountered is kept.
C28_MissingScoreLoses ==
    last.op = "merge" =>
        \A i \in 1..Len(last.result) :
            \E k \in Group(last.all_anime, last.result[i].title) :
                /\ IsKeptPlace(last.all_anime, k)
                /\ SameButRankAndCategory(last.result[i], last.all_anime[k])

\* the ranks of the records one fetched page yields are "1", "2", ... in
\* list order
PageRankedFromOne(s, key, limit, page, t) ==
    RankedFromOne(ExtractPage(s, page, Category(s, key).name, TagOf(s, key, t), limit))

\* C29: the ranks of the records an extractor returns for one document are
\* exactly 1, 2, ..., n in list order, n being the number of records, also
\* when listing rows are skipped; so are the ranks of the list
\* AniDBScraper.scrape_category returns.
C29_PositionalRanks ==
    IsCategoryCall =>
        /\ \A c \in 1..Len(last.calls) :
              PageRankedFromOne(last.scraper, last.key, last.limit, last.calls[c].page, c)
        /\ last.scraper = ANIDB => RankedFromOne(last.result)

\* the source key of the last scrape_all_categories call that returned
LastScraped(events) ==
    events[CHOOSE i \in 1..Len(events) :
               /\ events[i][1] = "scrape"
               /\ \A j \in (i + 1)..Len(events) : events[j][1] # "scrape"][2]

HasScraped(events, key) == \E i \in 1..Len(events) : events[i] = <<"scrape", key>>

\* the categories all_results holds for a source key
ResultOf(all_results, key) ==
    all_results[CHOOSE i \in 1..Len(all_results) : all_results[i].source = key].categories

\* the mapping holds, for every source whose scrape_all_categories returned,
\* a mapping of all its categories, as the call returns it
HoldsScrapedData(all_results, events) ==
    \A i \in 1..Len(all_results) :
        HasScraped(events, all_results[i].source)
            => Len(all_results[i].categories)
                   = Len(Categories(SourceOfKey(all_results[i].source)))

\* C30: for each source whose scrape_all_categories call returned without
\* exception, all_results and the combined file hold exactly the mapping the
\* call returned; it is never replaced by the empty mapping because of a
\* later failure (the write of the source's JSON or CSV file).
C30_ScrapedDataKept ==
    /\ HoldsScrapedData(last.all_results, last.events)
    /\ (\E i \in 1..Len(last.events) : last.events[i][1] = "scrape")
           => ResultOf(last.all_results, LastScraped(last.events)) = last.data
    /\ \A k \in 1..Len(last.exports) :
          last.exports[k].file = CombinedFile
              => HoldsScrapedData(last.exports[k].content, last.events)

====
